---- MODULE Spec2Model ----
(***************************************************************************)
(* Model of tools/releasetools/common.py: the dynamic partition planner    *)
(* (DynamicPartitionUpdate, DynamicGroupUpdate,                            *)
(* DynamicPartitionsDifference) and the replay of the operation list it    *)
(* produces.                                                               *)
(***************************************************************************)
EXTENDS Integers, Sequences, FiniteSets, TLC

(***************************************************************************)
(* Bounds of the model.                                                    *)
(***************************************************************************)
\* largest total_blocks of a partition image
MaxBlocks == 2

\* partition names and group names the inputs are drawn from
Parts == <<"system", "vendor">>
Groups == <<"ga", "gb">>
PartSet == {Parts[i] : i \in 1..Len(Parts)}
GroupSet == {Groups[i] : i \in 1..Len(Groups)}

(***************************************************************************)
(* Values of the program.                                                  *)
(***************************************************************************)
\* Python's None for a group name (DynamicPartitionUpdate.src_group)
None == "None"
\* Python's None for an info dict (source_info_dict=None)
NoneDict == [is_none |-> TRUE]
\* Python's None for a group size: "None: group does not exist"
NoneSize == -1
\* Python's None for an image (BlockDifference.src of a new partition)
NoneImg == -1
\* img.blocksize of every block image
blocksize == 4096

\* the group update_dynamic_partitions keeps for partitions in transit
DefaultGroup == "default"

VARIABLES
  info_dict,            \* constructor argument: the target build's info
  source_info_dict,     \* constructor argument: the source build's info, or None
  block_diffs,          \* constructor argument: sequence of BlockDifference
  build_without_vendor, \* constructor argument
  pc,                   \* "new", "constructed", "AssertionError"
  _remove_all_before_apply,
  _partition_updates,   \* OrderedDict as a sequence of DynamicPartitionUpdate
  _group_updates,       \* OrderedDict as a sequence of DynamicGroupUpdate
  _op_list,             \* the operation list
  dev_groups,           \* replay: group name -> ceiling, NoneSize if absent
  dev_parts,            \* replay: partition -> [group, size], group None if absent
  applied,              \* replay: number of lines of _op_list replayed
  replay_failed,        \* replay: a line could not be applied, the replay stopped
  script,               \* the edify script: sequence of statements
  output_zip,           \* the entries written to the output archive
  write_verify_script,  \* WriteScript argument
  diffs,                \* ComputeDifferences argument: sequence of Difference
  worker_threads,       \* OPTIONS.worker_threads
  main,                 \* ComputeDifferences: where the calling thread is
  by_size,              \* the pairs (places in diffs) in the sorted order
  diff_iter,            \* number of pairs the shared iterator has yielded
  lock,                 \* the worker that acquired the lock last, NoWorker if released
  wpc,                  \* worker -> where the worker thread is
  wd,                   \* worker -> the pair d of its loop (0: none)
  patch,                \* pair -> Difference.patch
  proc,                 \* pair -> state of the external diff process
  reader,               \* pair -> state of the thread running p.communicate()
  signals,              \* pair -> the signals ComputePatch sent to the process
  expired,              \* pair -> what the process was doing when join(timeout=300) timed out
  returned,             \* pair -> the tuple ComputePatch returned (<<>>: it has not)
  dequeued,             \* the pairs in the order the iterator yielded them
  bdiff,                \* the BlockDifference whose script is written
  touched_blocks_only,  \* WriteVerifyScript argument
  written,              \* the method that wrote the script ("": none yet)
  install,              \* the updater: "idle", "running", "done", "aborted"
  ip,                   \* the updater: place in script of the next statement
  calls,                \* the updater: the device functions called, with their results
  aborted,              \* the updater: the code of the abort (0: no abort)
  printed               \* the updater: the texts ui_print has shown

\* the variables of the planner and of the replay
planner_vars == <<info_dict, source_info_dict, block_diffs, build_without_vendor,
                  pc, _remove_all_before_apply, _partition_updates,
                  _group_updates, _op_list, dev_groups, dev_parts, applied,
                  replay_failed>>

\* the variables of the script writer
writer_vars == <<script, output_zip, write_verify_script>>

\* the variables of ComputeDifferences
pool_vars == <<diffs, worker_threads, main, by_size, diff_iter, lock, wpc, wd,
               patch, proc, reader, signals, expired, returned, dequeued>>

\* the variables of the BlockDifference scripts and of the updater
verify_vars == <<bdiff, touched_blocks_only, written, install, ip, calls, aborted,
                 printed>>

vars == <<info_dict, source_info_dict, block_diffs, build_without_vendor, pc,
          _remove_all_before_apply, _partition_updates, _group_updates,
          _op_list, dev_groups, dev_parts, applied, replay_failed,
          writer_vars, pool_vars, verify_vars>>

(***************************************************************************)
(* Helpers.                                                                *)
(***************************************************************************)
\* the concatenation of F(s[1]), ..., F(s[Len(s)]): a "for x in s" loop that
\* appends the lines F(x) in turn
ForEach(F(_), s) ==
  LET acc[i \in 0..Len(s)] == IF i = 0 THEN <<>> ELSE acc[i - 1] \o F(s[i])
  IN acc[Len(s)]

Range(s) == {s[i] : i \in 1..Len(s)}

SetMax(S) == CHOOSE x \in S : \A y \in S : y <= x

\* the subsequence of s of the elements in S
Sub(s, S) == SelectSeq(s, LAMBDA x : x \in S)

\* the empty dict(): info_dict.get() returns its default for every key
EmptyDict ==
  [groups |-> <<>>,
   partition_list |-> [g \in GroupSet |-> {}],
   group_size |-> [g \in GroupSet |-> 0],
   dynamic_partition_list |-> {}]

(***************************************************************************)
(* DynamicPartitionUpdate                                                  *)
(***************************************************************************)
_GetSparseImageSize(img) ==
  IF img = NoneImg THEN 0 ELSE blocksize * img

src_size(u) == _GetSparseImageSize(u.block_difference.src)

tgt_size(u) == _GetSparseImageSize(u.block_difference.tgt)

\* DynamicPartitionUpdate() followed by the assignment of block_difference
DynamicPartitionUpdate(bd) ==
  [partition |-> bd.partition, src_group |-> None, tgt_group |-> None,
   block_difference |-> bd]

(***************************************************************************)
(* DynamicGroupUpdate                                                      *)
(***************************************************************************)
DynamicGroupUpdate(g, ssize, tsize) ==
  [group |-> g, src_size |-> ssize, tgt_size |-> tsize]

(***************************************************************************)
(* DynamicPartitionsDifference.__init__                                    *)
(***************************************************************************)
\* source_info_dict after "if source_info_dict is None: ... = dict()"
SourceDict(sd) == IF sd = NoneDict THEN EmptyDict ELSE sd

\* assert len(block_diff_dict) == len(block_diffs)
NoDuplicates(bds) ==
  \A i, j \in 1..Len(bds) : bds[i].partition = bds[j].partition => i = j

\* the keys of self._partition_updates
UpdateKeys(bds) == {bds[i].partition : i \in 1..Len(bds)}

\* mutant: the assertion looks only at the partitions the build declares
\* in dynamic_partition_list
AllListedHaveBlockDiff_DeclaredOnly(d, bds) ==
  \A i \in 1..Len(d.groups) :
    (d.partition_list[d.groups[i]] \cap d.dynamic_partition_list) \subseteq UpdateKeys(bds)

\* assert p in self._partition_updates, for every p of every listed group
AllListedHaveBlockDiff(d, bds) ==
  \A i \in 1..Len(d.groups) : d.partition_list[d.groups[i]] \subseteq UpdateKeys(bds)

\* the group the loop "for g in groups: for p in list(g): u[p].group = g"
\* leaves in u[p].group: the last listed group naming p, None if there is none
GroupOf(d, p) ==
  LET idx == {i \in 1..Len(d.groups) : p \in d.partition_list[d.groups[i]]}
  IN IF idx = {} THEN None ELSE d.groups[SetMax(idx)]

\* self._partition_updates once tgt_group and src_group are assigned
PartitionUpdates(d, sd, bds) ==
  [i \in 1..Len(bds) |->
     [DynamicPartitionUpdate(bds[i]) EXCEPT
        !.tgt_group = GroupOf(d, bds[i].partition),
        !.src_group = GroupOf(sd, bds[i].partition)]]

\* set(p for p, u in self._partition_updates.items() if u.tgt_size)
block_diffs_with_target(pu) ==
  {pu[i].partition : i \in {j \in 1..Len(pu) : tgt_size(pu[j]) # 0}}

\* set(p for p, u in self._partition_updates.items() if u.src_size)
block_diffs_with_source(pu) ==
  {pu[i].partition : i \in {j \in 1..Len(pu) : src_size(pu[j]) # 0}}

\* self._group_updates: the target groups in their order, then the source
\* groups that are not target groups
GroupUpdates(d, sd) ==
  LET tg == Range(d.groups)
      sg == Range(sd.groups)
      order == d.groups \o SelectSeq(sd.groups, LAMBDA g : g \notin tg)
  IN [i \in 1..Len(order) |->
        DynamicGroupUpdate(
          order[i],
          IF order[i] \in sg THEN sd.group_size[order[i]] ELSE NoneSize,
          IF order[i] \in tg THEN d.group_size[order[i]] ELSE NoneSize)]

\* mutant: the two last assertions only require the partitions with an image
\* to be among the declared ones
ConstructorAccepts_Subset(d, sd, bds) ==
  /\ NoDuplicates(bds)
  /\ AllListedHaveBlockDiff(d, bds)
  /\ AllListedHaveBlockDiff(sd, bds)
  /\ block_diffs_with_target(PartitionUpdates(d, sd, bds)) \subseteq d.dynamic_partition_list
  /\ block_diffs_with_source(PartitionUpdates(d, sd, bds)) \subseteq sd.dynamic_partition_list

\* every assertion of the constructor passes
\* mutant: the two comparisons with dynamic_partition_list are left out
ConstructorAccepts_SetsUnchecked(d, sd, bds) ==
  /\ NoDuplicates(bds)
  /\ AllListedHaveBlockDiff(d, bds)
  /\ AllListedHaveBlockDiff(sd, bds)

ConstructorAccepts(d, sd, bds) ==
  /\ NoDuplicates(bds)
  /\ AllListedHaveBlockDiff(d, bds)
  /\ AllListedHaveBlockDiff(sd, bds)
  /\ block_diffs_with_target(PartitionUpdates(d, sd, bds)) = d.dynamic_partition_list
  /\ block_diffs_with_source(PartitionUpdates(d, sd, bds)) = sd.dynamic_partition_list

(***************************************************************************)
(* DynamicPartitionsDifference._Compute                                    *)
(***************************************************************************)
\* append(line): one line of the operation list
Line(op, name, group, size) ==
  [op |-> op, text |-> "", name |-> name, group |-> group, from |-> 0, size |-> size]

\* comment(line): a line "# ..."
Comment(text, name, group, from, size) ==
  [op |-> "#", text |-> text, name |-> name, group |-> group, from |-> from,
   size |-> size]

\* mutant: the system-only list resizes only the partitions whose size changes
ResizeOnly_SkipUnchanged(pu) ==
  <<Comment("System-only build, keep original vendor partition", "", "", 0, 0)>>
  \o ForEach(LAMBDA u :
       IF src_size(u) # tgt_size(u)
         THEN <<Comment("Resize partition", u.partition, "", 0, tgt_size(u)),
                Line("resize", u.partition, "", tgt_size(u))>>
         ELSE <<>>, pu)

\* if self._build_without_vendor: one resize per partition, then return
ResizeOnly(pu) ==
  <<Comment("System-only build, keep original vendor partition", "", "", 0, 0)>>
  \o ForEach(LAMBDA u :
       <<Comment("Resize partition", u.partition, "", 0, tgt_size(u)),
         Line("resize", u.partition, "", tgt_size(u))>>, pu)

\* mutant: the test of _remove_all_before_apply is inverted
RemoveAll_Inverted(rab) ==
  IF ~rab
    THEN <<Comment("Remove all existing dynamic partitions and groups before applying full OTA",
                   "", "", 0, 0),
           Line("remove_all_groups", "", "", 0)>>
    ELSE <<>>

\* if self._remove_all_before_apply
RemoveAll(rab) ==
  IF rab
    THEN <<Comment("Remove all existing dynamic partitions and groups before applying full OTA",
                   "", "", 0, 0),
           Line("remove_all_groups", "", "", 0)>>
    ELSE <<>>

RemovePartitions(pu) ==
  ForEach(LAMBDA u :
    IF u.src_group # None /\ u.tgt_group = None
      THEN <<Line("remove", u.partition, "", 0)>>
      ELSE <<>>, pu)

\* mutant: the partition is moved straight to its target group
MoveToDefault_Direct(pu) ==
  ForEach(LAMBDA u :
    IF u.src_group # None /\ u.tgt_group # None /\ u.src_group # u.tgt_group
      THEN <<Comment("Move partition to default", u.partition, u.src_group, 0, 0),
             Line("move", u.partition, u.tgt_group, 0)>>
      ELSE <<>>, pu)

MoveToDefault(pu) ==
  ForEach(LAMBDA u :
    IF u.src_group # None /\ u.tgt_group # None /\ u.src_group # u.tgt_group
      THEN <<Comment("Move partition to default", u.partition, u.src_group, 0, 0),
             Line("move", u.partition, DefaultGroup, 0)>>
      ELSE <<>>, pu)

ShrinkPartitions(pu) ==
  ForEach(LAMBDA u :
    IF src_size(u) # 0 /\ tgt_size(u) # 0 /\ src_size(u) > tgt_size(u)
      THEN <<Comment("Shrink partition", u.partition, "", src_size(u), tgt_size(u)),
             Line("resize", u.partition, "", tgt_size(u))>>
      ELSE <<>>, pu)

RemoveAndShrinkGroups(gu) ==
  ForEach(LAMBDA u :
    (IF u.src_size # NoneSize /\ u.tgt_size = NoneSize
       THEN <<Line("remove_group", "", u.group, 0)>>
       ELSE <<>>)
    \o
    (IF u.src_size # NoneSize /\ u.tgt_size # NoneSize /\ u.src_size > u.tgt_size
       THEN <<Comment("Shrink group", "", u.group, u.src_size, u.tgt_size),
              Line("resize_group", "", u.group, u.tgt_size)>>
       ELSE <<>>), gu)

AddAndGrowGroups(gu) ==
  ForEach(LAMBDA u :
    (IF u.src_size = NoneSize /\ u.tgt_size # NoneSize
       THEN <<Comment("Add group with maximum size", "", u.group, 0, u.tgt_size),
              Line("add_group", "", u.group, u.tgt_size)>>
       ELSE <<>>)
    \o
    (IF u.src_size # NoneSize /\ u.tgt_size # NoneSize /\ u.src_size < u.tgt_size
       THEN <<Comment("Grow group", "", u.group, u.src_size, u.tgt_size),
              Line("resize_group", "", u.group, u.tgt_size)>>
       ELSE <<>>), gu)

\* mutant: every partition of a target group is added, also one that the
\* source has
AddPartitions_AlsoExisting(pu) ==
  ForEach(LAMBDA u :
    IF u.tgt_group # None
      THEN <<Comment("Add partition to group", u.partition, u.tgt_group, 0, 0),
             Line("add", u.partition, u.tgt_group, 0)>>
      ELSE <<>>, pu)

AddPartitions(pu) ==
  ForEach(LAMBDA u :
    IF u.tgt_group # None /\ u.src_group = None
      THEN <<Comment("Add partition to group", u.partition, u.tgt_group, 0, 0),
             Line("add", u.partition, u.tgt_group, 0)>>
      ELSE <<>>, pu)

\* mutant: "<=" for "<", a resize also for a partition that keeps its size
GrowPartitions_Leq(pu) ==
  ForEach(LAMBDA u :
    IF tgt_size(u) # 0 /\ src_size(u) <= tgt_size(u)
      THEN <<Comment("Grow partition", u.partition, "", src_size(u), tgt_size(u)),
             Line("resize", u.partition, "", tgt_size(u))>>
      ELSE <<>>, pu)

\* mutant: the last resize loop also resizes the partitions that shrink
GrowPartitions_AlsoShrinking(pu) ==
  ForEach(LAMBDA u :
    IF tgt_size(u) # 0 /\ src_size(u) # tgt_size(u)
      THEN <<Comment("Grow partition", u.partition, "", src_size(u), tgt_size(u)),
             Line("resize", u.partition, "", tgt_size(u))>>
      ELSE <<>>, pu)

GrowPartitions(pu) ==
  ForEach(LAMBDA u :
    IF tgt_size(u) # 0 /\ src_size(u) < tgt_size(u)
      THEN <<Comment("Grow partition", u.partition, "", src_size(u), tgt_size(u)),
             Line("resize", u.partition, "", tgt_size(u))>>
      ELSE <<>>, pu)

\* mutant: the last loop tests the wrong group, and moves no partition
\* out of "default"
MoveToTarget_Never(pu) ==
  ForEach(LAMBDA u :
    IF u.src_group # None /\ u.tgt_group # None /\ u.tgt_group # u.tgt_group
      THEN <<Comment("Move partition from default to", u.partition, u.tgt_group, 0, 0),
             Line("move", u.partition, u.tgt_group, 0)>>
      ELSE <<>>, pu)

MoveToTarget(pu) ==
  ForEach(LAMBDA u :
    IF u.src_group # None /\ u.tgt_group # None /\ u.src_group # u.tgt_group
      THEN <<Comment("Move partition from default to", u.partition, u.tgt_group, 0, 0),
             Line("move", u.partition, u.tgt_group, 0)>>
      ELSE <<>>, pu)

\* mutant: the groups are removed and shrunk before the partitions shrink
_Compute_GroupsBeforeShrink(pu, gu, bwv, rab) ==
  IF bwv
    THEN ResizeOnly(pu)
    ELSE RemoveAll(rab) \o RemovePartitions(pu) \o MoveToDefault(pu)
         \o RemoveAndShrinkGroups(gu) \o ShrinkPartitions(pu)
         \o AddAndGrowGroups(gu) \o AddPartitions(pu) \o GrowPartitions(pu)
         \o MoveToTarget(pu)

\* mutant: the partitions are added and grow before the groups are added
\* and grow
_Compute_GroupsAfterGrow(pu, gu, bwv, rab) ==
  IF bwv
    THEN ResizeOnly(pu)
    ELSE RemoveAll(rab) \o RemovePartitions(pu) \o MoveToDefault(pu)
         \o ShrinkPartitions(pu) \o RemoveAndShrinkGroups(gu)
         \o AddPartitions(pu) \o GrowPartitions(pu) \o AddAndGrowGroups(gu)
         \o MoveToTarget(pu)

\* mutant: the partitions leave "default" before the groups are added and
\* grow
_Compute_MoveBeforeGroups(pu, gu, bwv, rab) ==
  IF bwv
    THEN ResizeOnly(pu)
    ELSE RemoveAll(rab) \o RemovePartitions(pu) \o MoveToDefault(pu)
         \o ShrinkPartitions(pu) \o RemoveAndShrinkGroups(gu)
         \o MoveToTarget(pu)
         \o AddAndGrowGroups(gu) \o AddPartitions(pu) \o GrowPartitions(pu)

\* mutant: the partitions grow before the new partitions are added
_Compute_GrowBeforeAdd(pu, gu, bwv, rab) ==
  IF bwv
    THEN ResizeOnly(pu)
    ELSE RemoveAll(rab) \o RemovePartitions(pu) \o MoveToDefault(pu)
         \o ShrinkPartitions(pu) \o RemoveAndShrinkGroups(gu)
         \o AddAndGrowGroups(gu) \o GrowPartitions(pu) \o AddPartitions(pu)
         \o MoveToTarget(pu)

\* mutant: the groups are removed and shrunk before the partitions leave
\* them
_Compute_GroupsBeforeRemove(pu, gu, bwv, rab) ==
  IF bwv
    THEN ResizeOnly(pu)
    ELSE RemoveAll(rab) \o RemoveAndShrinkGroups(gu) \o RemovePartitions(pu)
         \o MoveToDefault(pu) \o ShrinkPartitions(pu)
         \o AddAndGrowGroups(gu) \o AddPartitions(pu) \o GrowPartitions(pu)
         \o MoveToTarget(pu)

\* self._op_list when _Compute returns
_Compute(pu, gu, bwv, rab) ==
  IF bwv
    THEN ResizeOnly(pu)
    ELSE RemoveAll(rab) \o RemovePartitions(pu) \o MoveToDefault(pu)
         \o ShrinkPartitions(pu) \o RemoveAndShrinkGroups(gu)
         \o AddAndGrowGroups(gu) \o AddPartitions(pu) \o GrowPartitions(pu)
         \o MoveToTarget(pu)

(***************************************************************************)
(* Replay of the operation list by the install agent                       *)
(* (update_dynamic_partitions): the meaning of each verb.                  *)
(***************************************************************************)
NoPart == [group |-> None, size |-> 0]

\* the device before the update: the declared source topology
SourceGroups(sd) ==
  [g \in GroupSet |-> IF g \in Range(sd.groups) THEN sd.group_size[g] ELSE NoneSize]

SourceParts(sd, bds) ==
  [p \in PartSet |->
     IF GroupOf(sd, p) = None THEN NoPart
     ELSE [group |-> GroupOf(sd, p),
           size |-> IF \E i \in 1..Len(bds) : bds[i].partition = p
                      THEN _GetSparseImageSize(
                             bds[CHOOSE i \in 1..Len(bds) : bds[i].partition = p].src)
                      ELSE 0]]

GroupExists(groups, g) == g = DefaultGroup \/ (g \in GroupSet /\ groups[g] # NoneSize)

PartExists(parts, p) == p \in PartSet /\ parts[p].group # None

\* whether the agent can apply the line to the device
Applicable(l, groups, parts) ==
  CASE l.op = "#" -> TRUE
    [] l.op = "remove_all_groups" -> TRUE
    [] l.op = "remove" -> PartExists(parts, l.name)
    [] l.op = "move" -> PartExists(parts, l.name) /\ GroupExists(groups, l.group)
    [] l.op = "resize" -> PartExists(parts, l.name)
    [] l.op = "add" -> ~PartExists(parts, l.name) /\ GroupExists(groups, l.group)
    [] l.op = "add_group" -> ~GroupExists(groups, l.group)
    [] l.op = "resize_group" -> GroupExists(groups, l.group) /\ l.group # DefaultGroup
    [] l.op = "remove_group" -> GroupExists(groups, l.group) /\ l.group # DefaultGroup
    [] OTHER -> FALSE

ApplyGroups(l, groups) ==
  CASE l.op = "remove_all_groups" -> [g \in GroupSet |-> NoneSize]
    [] l.op = "add_group" -> [groups EXCEPT ![l.group] = l.size]
    [] l.op = "resize_group" -> [groups EXCEPT ![l.group] = l.size]
    [] l.op = "remove_group" -> [groups EXCEPT ![l.group] = NoneSize]
    [] OTHER -> groups

ApplyParts(l, parts) ==
  CASE l.op = "remove_all_groups" -> [p \in PartSet |-> NoPart]
    [] l.op = "remove" -> [parts EXCEPT ![l.name] = NoPart]
    [] l.op = "move" -> [parts EXCEPT ![l.name].group = l.group]
    [] l.op = "resize" -> [parts EXCEPT ![l.name].size = l.size]
    [] l.op = "add" -> [parts EXCEPT ![l.name] = [group |-> l.group, size |-> 0]]
    [] OTHER -> parts

\* the index of the first line after line k that is not a comment,
\* Len(ops) + 1 if there is none
NextOp(ops, k) ==
  LET later == {i \in (k + 1)..Len(ops) : ops[i].op # "#"}
  IN IF later = {} THEN Len(ops) + 1
     ELSE CHOOSE i \in later : \A j \in later : i <= j

(***************************************************************************)
(* ErrorCode                                                               *)
(***************************************************************************)
SYSTEM_VERIFICATION_FAILURE == 1000
SYSTEM_UPDATE_FAILURE == 1001
SYSTEM_UNEXPECTED_CONTENTS == 1002
SYSTEM_NONZERO_CONTENTS == 1003
SYSTEM_RECOVER_FAILURE == 1004
VENDOR_VERIFICATION_FAILURE == 2000
VENDOR_UPDATE_FAILURE == 2001
VENDOR_UNEXPECTED_CONTENTS == 2002
VENDOR_NONZERO_CONTENTS == 2003
VENDOR_RECOVER_FAILURE == 2004

(***************************************************************************)
(* The edify script. A statement is one call or one keyword of the text    *)
(* the generator appends: kind names it, partition is the partition it is  *)
(* about, code the number of its abort (0: it has none), arg what it       *)
(* compares or prints, files the archive entries its text names.           *)
(***************************************************************************)
Stmt(kind, partition, code, arg) ==
  [kind |-> kind, partition |-> partition, code |-> code, arg |-> arg,
   files |-> {}]

\* a statement whose text names entries of the archive
StmtWithFiles(kind, partition, code, arg, files) ==
  [Stmt(kind, partition, code, arg) EXCEPT !.files = files]

\* script.Comment(text)
ScriptComment(text, partition) == <<Stmt("comment", partition, 0, text)>>

\* script.Print(text)
ScriptPrint(text, partition) == <<Stmt("ui_print", partition, 0, text)>>

\* an entry of the output archive
ZipEntry(partition, name) == [partition |-> partition, name |-> name]

(***************************************************************************)
(* BlockDifference: the statements each method appends to the script.      *)
(* has_src: self.src is an image; extended: self.tgt.extended is not       *)
(* empty.                                                                  *)
(***************************************************************************)
\* "{partition}.new.dat.br" for a full install, "{partition}.new.dat" else
new_data_name(has_src) == IF has_src THEN "new.dat" ELSE "new.dat.br"

\* mutant: the new data is written compressed for an incremental too
_WriteUpdateEntries_AlwaysCompressed(partition, has_src) ==
  {ZipEntry(partition, "transfer.list"),
   ZipEntry(partition, "new.dat.br"),
   ZipEntry(partition, "patch.dat")}

\* the archive entries _WriteUpdate writes
_WriteUpdateEntries(partition, has_src) ==
  {ZipEntry(partition, "transfer.list"),
   ZipEntry(partition, new_data_name(has_src)),
   ZipEntry(partition, "patch.dat")}

\* the entries the text of the block_image_update call names:
\* package_extract_file("{partition}.transfer.list"), "{new_data_name}",
\* "{partition}.patch.dat"
block_image_update_files(partition, has_src) ==
  {ZipEntry(partition, "transfer.list"),
   ZipEntry(partition, new_data_name(has_src)),
   ZipEntry(partition, "patch.dat")}

\* the entries the text of a block_image_verify call names:
\* package_extract_file("{partition}.transfer.list"), "{partition}.new.dat",
\* "{partition}.patch.dat"
block_image_verify_files(partition) ==
  {ZipEntry(partition, "transfer.list"),
   ZipEntry(partition, "new.dat"),
   ZipEntry(partition, "patch.dat")}

\* mutant: the package cache is deleted before the update
_WriteUpdate_DeleteFirst(partition, has_src) ==
  LET code == IF partition = "system" THEN SYSTEM_UPDATE_FAILURE
              ELSE VENDOR_UPDATE_FAILURE
  IN <<Stmt("delete_recursive", partition, 0, "/data/system/package_cache"),
       StmtWithFiles("block_image_update_or_abort", partition, code,
                     new_data_name(has_src),
                     block_image_update_files(partition, has_src))>>

\* BlockDifference._WriteUpdate: block_image_update(...) || abort(...);
\* delete_recursive(...);
_WriteUpdate(partition, has_src) ==
  LET code == IF partition = "system" THEN SYSTEM_UPDATE_FAILURE
              ELSE VENDOR_UPDATE_FAILURE
  IN <<StmtWithFiles("block_image_update_or_abort", partition, code,
                     new_data_name(has_src),
                     block_image_update_files(partition, has_src)),
       Stmt("delete_recursive", partition, 0, "/data/system/package_cache")>>

\* mutant: the two abort codes change places
WritePostInstallVerifyScript_CodesSwapped(partition, extended) ==
  ScriptPrint("Verifying image", partition)
  \o <<Stmt("if", partition, 0, "range_sha1 of tgt.care_map")>>
  \o (IF extended
        THEN <<Stmt("if", partition, 0, "range_sha1 of tgt.extended")>>
             \o ScriptPrint("Verified image", partition)
             \o <<Stmt("else", partition, 0, ""),
                  Stmt("abort", partition,
                       IF partition = "system" THEN SYSTEM_UNEXPECTED_CONTENTS
                       ELSE VENDOR_UNEXPECTED_CONTENTS, "non-zero contents"),
                  Stmt("endif", partition, 0, "")>>
        ELSE ScriptPrint("Verified image", partition))
  \o <<Stmt("else", partition, 0, ""),
       Stmt("abort", partition,
            IF partition = "system" THEN SYSTEM_NONZERO_CONTENTS
            ELSE VENDOR_NONZERO_CONTENTS, "unexpected contents"),
       Stmt("endif", partition, 0, "")>>

\* BlockDifference.WritePostInstallVerifyScript
WritePostInstallVerifyScript(partition, extended) ==
  ScriptPrint("Verifying image", partition)
  \o <<Stmt("if", partition, 0, "range_sha1 of tgt.care_map")>>
  \o (IF extended
        THEN <<Stmt("if", partition, 0, "range_sha1 of tgt.extended")>>
             \o ScriptPrint("Verified image", partition)
             \o <<Stmt("else", partition, 0, ""),
                  Stmt("abort", partition,
                       IF partition = "system" THEN SYSTEM_NONZERO_CONTENTS
                       ELSE VENDOR_NONZERO_CONTENTS, "non-zero contents"),
                  Stmt("endif", partition, 0, "")>>
        ELSE ScriptPrint("Verified image", partition))
  \o <<Stmt("else", partition, 0, ""),
       Stmt("abort", partition,
            IF partition = "system" THEN SYSTEM_UNEXPECTED_CONTENTS
            ELSE VENDOR_UNEXPECTED_CONTENTS, "unexpected contents"),
       Stmt("endif", partition, 0, "")>>

\* BlockDifference.WriteScript
BlockDifference_WriteScript(partition, has_src, progress, extended, verify) ==
  (IF ~has_src
     THEN ScriptPrint("Flashing image unconditionally", partition)
     ELSE ScriptPrint("Flashing image after verification", partition))
  \o (IF progress THEN <<Stmt("show_progress", partition, 0, "")>> ELSE <<>>)
  \o _WriteUpdate(partition, has_src)
  \o (IF verify THEN WritePostInstallVerifyScript(partition, extended) ELSE <<>>)

(***************************************************************************)
(* DynamicPartitionsDifference.WriteScript                                 *)
(***************************************************************************)
\* u.src_size and u.tgt_size and u.src_size > u.tgt_size
Shrinks(u) == src_size(u) # 0 /\ tgt_size(u) # 0 /\ src_size(u) > tgt_size(u)

\* u.tgt_size and u.src_size <= u.tgt_size
WrittenAfter(u) == tgt_size(u) # 0 /\ src_size(u) <= tgt_size(u)

\* the first loop: the partitions that shrink are patched
PatchShrinking(pu, prog, ext) ==
  ForEach(LAMBDA u :
            IF Shrinks(u)
              THEN ScriptComment("Patch partition", u.partition)
                   \o BlockDifference_WriteScript(
                        u.partition, u.block_difference.src # NoneImg,
                        u.partition \in prog, u.partition \in ext, FALSE)
              ELSE <<>>,
          pu)

\* assert(update_dynamic_partitions(package_extract_file(...)));
UpdateMetadata ==
  ScriptComment("Update dynamic partition metadata", "")
  \o <<Stmt("update_dynamic_partitions", "", 0, "dynamic_partitions_op_list")>>

\* if write_verify_script: the partitions that shrank are verified
VerifyShrunk(pu, ext, verify) ==
  ForEach(LAMBDA u :
            IF verify /\ Shrinks(u)
              THEN WritePostInstallVerifyScript(u.partition, u.partition \in ext)
                   \o <<Stmt("unmap_partition", u.partition, 0, "")>>
              ELSE <<>>,
          pu)

\* mutant: the last loop patches every partition of the target build
PatchOthers_EverySized(pu, prog, ext, verify) ==
  ForEach(LAMBDA u :
            IF tgt_size(u) # 0
              THEN ScriptComment("Patch partition", u.partition)
                   \o BlockDifference_WriteScript(
                        u.partition, u.block_difference.src # NoneImg,
                        u.partition \in prog, u.partition \in ext, verify)
                   \o (IF verify
                         THEN <<Stmt("unmap_partition", u.partition, 0, "")>>
                         ELSE <<>>)
              ELSE <<>>,
          pu)

\* the last loop: the other partitions of the target build are patched
PatchOthers(pu, prog, ext, verify) ==
  ForEach(LAMBDA u :
            IF WrittenAfter(u)
              THEN ScriptComment("Patch partition", u.partition)
                   \o BlockDifference_WriteScript(
                        u.partition, u.block_difference.src # NoneImg,
                        u.partition \in prog, u.partition \in ext, verify)
                   \o (IF verify
                         THEN <<Stmt("unmap_partition", u.partition, 0, "")>>
                         ELSE <<>>)
              ELSE <<>>,
          pu)

\* mutant: the metadata is updated before any partition is patched
WriteScriptText_MetadataFirst(pu, prog, ext, verify) ==
  ScriptComment("--- Start patching dynamic partitions ---", "")
  \o UpdateMetadata
  \o PatchShrinking(pu, prog, ext)
  \o VerifyShrunk(pu, ext, verify)
  \o PatchOthers(pu, prog, ext, verify)
  \o ScriptComment("--- End patching dynamic partitions ---", "")

\* the statements WriteScript appends, in the order of its code
WriteScriptText(pu, prog, ext, verify) ==
  ScriptComment("--- Start patching dynamic partitions ---", "")
  \o PatchShrinking(pu, prog, ext)
  \o UpdateMetadata
  \o VerifyShrunk(pu, ext, verify)
  \o PatchOthers(pu, prog, ext, verify)
  \o ScriptComment("--- End patching dynamic partitions ---", "")

\* the archive entries WriteScript writes: the operation list and what
\* _WriteUpdate writes for each patched partition
WriteScriptEntries(pu) ==
  {ZipEntry("", "dynamic_partitions_op_list")}
  \cup UNION {_WriteUpdateEntries(pu[i].partition, pu[i].block_difference.src # NoneImg) :
                i \in {j \in 1..Len(pu) : Shrinks(pu[j]) \/ WrittenAfter(pu[j])}}

(***************************************************************************)
(* Inputs.                                                                 *)
(***************************************************************************)
\* group ceilings: 0 (no limit), one too small for a largest partition, and
\* one that holds a largest partition and a smallest one
Ceilings == {0, blocksize * (MaxBlocks - 1), blocksize * (MaxBlocks + 1)}

\* total_blocks of the images of the one-partition inputs: every size
SrcImages == {NoneImg} \cup (1..MaxBlocks)
TgtImages == 0..MaxBlocks
\* total_blocks of the images of the two-partition inputs: the smallest and
\* the largest size
TwoImages == {1, MaxBlocks}
\* the orders in which the caller passes the BlockDifference objects
Orders == {Parts, [i \in 1..Len(Parts) |-> Parts[Len(Parts) + 1 - i]]}

CeilChoices == [GroupSet -> Ceilings \cup {NoneSize}]

OneCeilChoices == {c \in CeilChoices : c[Groups[2]] \in {NoneSize, 0}}

\* the groups of a build with the ceilings ceil
Present(ceil) == {g \in GroupSet : ceil[g] # NoneSize}

\* what a build says of one partition: the group that lists it (None: no
\* group does) and the partition's image (NoneImg or 0 blocks: none)
NoSlot(noimg) == [group |-> None, img |-> noimg]

ListedSlots(ceil, imgs) == [group : Present(ceil), img : imgs]

BlockDiff(p, s, t) == [partition |-> p, src |-> s, tgt |-> t]

\* the info dict of a build whose groups have the ceilings ceil (NoneSize:
\* not a group of the build), whose partitions are listed as slot says, and
\* whose dynamic_partition_list is dpl
MkDict(ceil, slot, dpl) ==
  [groups |-> Sub(Groups, Present(ceil)),
   partition_list |-> [g \in GroupSet |-> {p \in PartSet : slot[p].group = g}],
   group_size |-> [g \in GroupSet |-> IF ceil[g] = NoneSize THEN 0 ELSE ceil[g]],
   dynamic_partition_list |-> dpl]

InitRest ==
  /\ pc = "new"
  /\ _remove_all_before_apply = FALSE
  /\ _partition_updates = <<>>
  /\ _group_updates = <<>>
  /\ _op_list = <<>>
  /\ dev_groups = SourceGroups(SourceDict(source_info_dict))
  /\ dev_parts = SourceParts(SourceDict(source_info_dict), block_diffs)
  /\ applied = 0
  /\ replay_failed = FALSE

\* both partitions have a BlockDifference, and each build lists a partition
\* in one of its groups exactly when the partition has an image in that
\* build; without a source build no partition has a source image, and
\* build_without_vendor and the order of block_diffs are drawn freely
\* (with a source build: the default False, the order of Parts)
InitTwo ==
  \E tceil \in CeilChoices, sceil \in CeilChoices \cup {NoneDict} :
    \E t \in [PartSet -> {NoSlot(0)} \cup ListedSlots(tceil, TwoImages)],
       s \in [PartSet -> {NoSlot(NoneImg)} \cup
                         (IF sceil = NoneDict THEN {}
                          ELSE ListedSlots(sceil, TwoImages))],
       order \in (IF sceil = NoneDict THEN Orders ELSE {Parts}) :
      /\ info_dict = MkDict(tceil, t, {p \in PartSet : t[p].img # 0})
      /\ source_info_dict =
           IF sceil = NoneDict THEN NoneDict
           ELSE MkDict(sceil, s, {p \in PartSet : s[p].img # NoneImg})
      /\ block_diffs = [i \in 1..Len(order) |->
                          BlockDiff(order[i], s[order[i]].img, t[order[i]].img)]
      /\ build_without_vendor \in (IF sceil = NoneDict THEN BOOLEAN ELSE {FALSE})

\* only the first partition is named, with no BlockDifference, with one or
\* with the same one passed twice, and the builds list it and declare it in
\* any way; the second group, when a build has it, has no limit
InitOne ==
  \E tceil \in OneCeilChoices, sceil \in OneCeilChoices \cup {NoneDict},
     tdpl \in SUBSET {Parts[1]}, sdpl \in SUBSET {Parts[1]},
     bds \in {<<>>}
               \cup {<<BlockDiff(Parts[1], si, ti)>> : si \in SrcImages, ti \in TgtImages}
               \cup {<<BlockDiff(Parts[1], si, ti), BlockDiff(Parts[1], si, ti)>> :
                       si \in SrcImages, ti \in TgtImages} :
    \E tg \in Present(tceil) \cup {None},
       sg \in (IF sceil = NoneDict THEN {} ELSE Present(sceil)) \cup {None} :
      /\ sceil = NoneDict => sdpl = {}
      /\ info_dict =
           MkDict(tceil, [p \in PartSet |-> IF p = Parts[1] THEN [group |-> tg] ELSE [group |-> None]], tdpl)
      /\ source_info_dict =
           IF sceil = NoneDict THEN NoneDict
           ELSE MkDict(sceil, [p \in PartSet |-> IF p = Parts[1] THEN [group |-> sg] ELSE [group |-> None]], sdpl)
      /\ block_diffs = bds
      /\ build_without_vendor \in BOOLEAN

\* the worker threads ComputeDifferences can start, in the order it starts them
Workers == <<"w1", "w2">>
WorkerSet == {Workers[i] : i \in 1..Len(Workers)}
\* the lock is released
NoWorker == "none"
\* largest size of a target file, and largest number of pairs
MaxFileSize == 2
MaxDiffs == 2

\* ComputeDifferences is not running
PoolIdle ==
  /\ diffs = <<>>
  /\ worker_threads = 0
  /\ main = "idle"
  /\ by_size = <<>>
  /\ diff_iter = 0
  /\ lock = NoWorker
  /\ wpc = [w \in WorkerSet |-> "unstarted"]
  /\ wd = [w \in WorkerSet |-> 0]
  /\ patch = <<>>
  /\ proc = <<>>
  /\ reader = <<>>
  /\ signals = <<>>
  /\ expired = <<>>
  /\ returned = <<>>
  /\ dequeued = <<>>

\* no BlockDifference script is written or run
VerifyIdle ==
  /\ bdiff = [is_none |-> TRUE]
  /\ touched_blocks_only = FALSE
  /\ written = ""
  /\ install = "idle"
  /\ ip = 0
  /\ calls = <<>>
  /\ aborted = 0
  /\ printed = <<>>

\* no script is being written
WriterIdle ==
  /\ script = <<>>
  /\ output_zip = {}
  /\ write_verify_script = FALSE

Init ==
  /\ InitTwo \/ InitOne
  /\ InitRest
  /\ WriterIdle
  /\ PoolIdle
  /\ VerifyIdle

(***************************************************************************)
(* Actions.                                                                *)
(***************************************************************************)
\* DynamicPartitionsDifference(info_dict, block_diffs, source_info_dict=...,
\* build_without_vendor=...): every assertion passes and _Compute has run
Construct ==
  /\ pc = "new"
  /\ ConstructorAccepts(info_dict, SourceDict(source_info_dict), block_diffs)
  /\ pc' = "constructed"
  /\ _remove_all_before_apply' = (source_info_dict = NoneDict)
  /\ _partition_updates' =
       PartitionUpdates(info_dict, SourceDict(source_info_dict), block_diffs)
  /\ _group_updates' = GroupUpdates(info_dict, SourceDict(source_info_dict))
  /\ _op_list' = _Compute(_partition_updates', _group_updates',
                          build_without_vendor, _remove_all_before_apply')
  /\ UNCHANGED <<info_dict, source_info_dict, block_diffs, build_without_vendor,
                 dev_groups, dev_parts, applied, replay_failed>>
  /\ UNCHANGED <<writer_vars, pool_vars, verify_vars>>

\* the constructor raises AssertionError: no operation list exists
ConstructFails ==
  /\ pc = "new"
  /\ ~ConstructorAccepts(info_dict, SourceDict(source_info_dict), block_diffs)
  /\ pc' = "AssertionError"
  /\ UNCHANGED <<info_dict, source_info_dict, block_diffs, build_without_vendor,
                 _remove_all_before_apply, _partition_updates, _group_updates,
                 _op_list, dev_groups, dev_parts, applied, replay_failed>>
  /\ UNCHANGED <<writer_vars, pool_vars, verify_vars>>

\* the install agent replays the next operation of the list, passing over
\* the comment lines before it (and over trailing comment lines)
ReplayStep ==
  /\ pc = "constructed"
  /\ ~replay_failed
  /\ applied < Len(_op_list)
  /\ LET n == NextOp(_op_list, applied) IN
       IF n > Len(_op_list)
         THEN /\ applied' = Len(_op_list)
              /\ UNCHANGED <<dev_groups, dev_parts, replay_failed>>
         ELSE IF Applicable(_op_list[n], dev_groups, dev_parts)
           THEN /\ dev_groups' = ApplyGroups(_op_list[n], dev_groups)
                /\ dev_parts' = ApplyParts(_op_list[n], dev_parts)
                /\ applied' = n
                /\ UNCHANGED replay_failed
           ELSE /\ replay_failed' = TRUE
                /\ UNCHANGED <<dev_groups, dev_parts, applied>>
  /\ UNCHANGED <<info_dict, source_info_dict, block_diffs, build_without_vendor,
                 pc, _remove_all_before_apply, _partition_updates,
                 _group_updates, _op_list>>
  /\ UNCHANGED <<writer_vars, pool_vars, verify_vars>>

Next == Construct \/ ConstructFails \/ ReplayStep

Spec == Init /\ [][Next]_vars

(***************************************************************************)
(* Writing the script of a constructed DynamicPartitionsDifference.        *)
(***************************************************************************)
\* WriteScript(script, output_zip, write_verify_script=verify) on an empty
\* script and an empty archive; prog: the partitions whose progress is set,
\* ext: the partitions whose target image has an extended region
WriteScript ==
  /\ pc = "constructed"
  /\ script = <<>>
  /\ \E verify \in BOOLEAN, prog \in SUBSET PartSet, ext \in SUBSET PartSet :
       /\ write_verify_script' = verify
       /\ script' = WriteScriptText(_partition_updates, prog, ext, verify)
       /\ output_zip' = WriteScriptEntries(_partition_updates)
  /\ UNCHANGED <<info_dict, source_info_dict, block_diffs, build_without_vendor,
                 pc, _remove_all_before_apply, _partition_updates,
                 _group_updates, _op_list, dev_groups, dev_parts, applied,
                 replay_failed>>
  /\ UNCHANGED <<pool_vars, verify_vars>>

\* the ceilings of a build with the one group Groups[1], without limit
OneGroup == [g \in GroupSet |-> IF g = Groups[1] THEN 0 ELSE NoneSize]

\* both partitions have a BlockDifference, passed in either order, with
\* images of every size; each build lists in its one group the partitions it
\* has an image of, and declares them or (declare_all) every partition;
\* no script yet
InitWrite ==
  /\ \E s \in [PartSet -> SrcImages], t \in [PartSet -> TgtImages],
        order \in Orders, declare_all \in BOOLEAN, with_source \in BOOLEAN :
       /\ ~with_source => \A p \in PartSet : s[p] = NoneImg
       /\ info_dict =
            MkDict(OneGroup,
                   [p \in PartSet |-> IF t[p] # 0 THEN [group |-> Groups[1]]
                                      ELSE [group |-> None]],
                   IF declare_all THEN PartSet ELSE {p \in PartSet : t[p] # 0})
       /\ source_info_dict =
            IF ~with_source THEN NoneDict
            ELSE MkDict(OneGroup,
                        [p \in PartSet |-> IF s[p] # NoneImg THEN [group |-> Groups[1]]
                                           ELSE [group |-> None]],
                        {p \in PartSet : s[p] # NoneImg})
       /\ block_diffs = [i \in 1..Len(order) |->
                           BlockDiff(order[i], s[order[i]], t[order[i]])]
       /\ build_without_vendor = FALSE
  /\ InitRest
  /\ WriterIdle
  /\ PoolIdle
  /\ VerifyIdle

NextWrite == Construct \/ ConstructFails \/ WriteScript

SpecWrite == InitWrite /\ [][NextWrite]_vars

(***************************************************************************)
(* Difference and ComputeDifferences.                                      *)
(* A pair is named by its place in diffs. The external diff process of a   *)
(* pair is "none" (not started), "running", or has ended: "exit0" (status  *)
(* 0), "exit1" (a non-zero status of its own), "signalled" (ended by the   *)
(* terminate or kill signal: a negative returncode). The thread th that    *)
(* runs p.communicate() is "none", "alive" or "ended".                     *)
(***************************************************************************)
PairIdx == 1..Len(diffs)

\* Difference(tf, sf): tf.size is all the pool reads of the files
Difference(size) == [tf_size |-> size]

\* the orders of 1..n
Orderings(n) == {o \in [1..n -> 1..n] : \A j, k \in 1..n : o[j] = o[k] => j = k}

\* mutant: by_size.sort() without reverse=True
SortedLargestFirst_Ascending(ds) ==
  {o \in Orderings(Len(ds)) :
     \A j, k \in 1..Len(ds) : j < k => ds[o[j]].tf_size <= ds[o[k]].tf_size}

\* by_size after sort(reverse=True) of the (size, Difference) tuples: the
\* sizes do not increase; pairs of equal size come in the order the
\* comparison of the two Difference objects gives, which is any order
SortedLargestFirst(ds) ==
  {o \in Orderings(Len(ds)) :
     \A j, k \in 1..Len(ds) : j < k => ds[o[j]].tf_size >= ds[o[k]].tf_size}

\* two tuples of by_size have the same size: the sort compares the two
\* Difference objects, which have no order where objects do not compare
SortComparesObjects(ds) ==
  \E j, k \in 1..Len(ds) : j # k /\ ds[j].tf_size = ds[k].tf_size

\* mutant: the patch file is read whatever the return code
PatchAfterDiff_IgnoreReturnCode(status) == "patch"

\* self.patch once the process has ended: None "if p.returncode != 0"
PatchAfterDiff(status) == IF status # "exit0" THEN None ELSE "patch"

\* what ComputePatch returns once the process has ended: "return None, None,
\* None" if p.returncode != 0, else "return self.tf, self.sf, self.patch"
ComputePatchResult(status) ==
  IF status # "exit0" THEN <<None, None, None>>
  ELSE <<"tf", "sf", PatchAfterDiff(status)>>

\* Difference.GetPatch of pair d: return self.tf, self.sf, self.patch
GetPatch(d) == <<"tf", "sf", patch[d]>>

\* the log line of a patch divides by tf.size
ReportDividesByZero(d) == patch[d] # None /\ diffs[d].tf_size = 0

\* the worker threads range(OPTIONS.worker_threads) creates
Started == {Workers[i] : i \in 1..worker_threads}

DiffInputs ==
  UNION {[1..n -> {Difference(size) : size \in 0..MaxFileSize}] : n \in 0..MaxDiffs}

InitPool ==
  /\ diffs \in DiffInputs
  /\ worker_threads \in 0..Len(Workers)
  /\ main = "sort"
  /\ by_size = <<>>
  /\ diff_iter = 0
  /\ lock = NoWorker
  /\ wpc = [w \in WorkerSet |-> "unstarted"]
  /\ wd = [w \in WorkerSet |-> 0]
  /\ patch = [i \in PairIdx |-> None]
  /\ proc = [i \in PairIdx |-> "none"]
  /\ reader = [i \in PairIdx |-> "none"]
  /\ signals = [i \in PairIdx |-> <<>>]
  /\ expired = [i \in PairIdx |-> "no"]
  /\ returned = [i \in PairIdx |-> <<>>]
  /\ dequeued = <<>>
  /\ info_dict = EmptyDict
  /\ source_info_dict = NoneDict
  /\ block_diffs = <<>>
  /\ build_without_vendor = FALSE
  /\ InitRest
  /\ WriterIdle
  /\ VerifyIdle

\* what a step of one worker leaves alone
WorkerFrame == UNCHANGED <<planner_vars, writer_vars, verify_vars, diffs, worker_threads, main, by_size>>

\* by_size = [...]; by_size.sort(reverse=True); lock and diff_iter are created
Sort ==
  /\ main = "sort"
  /\ by_size' \in SortedLargestFirst(diffs)
  /\ main' = "start"
  /\ UNCHANGED <<planner_vars, writer_vars, verify_vars, diffs, worker_threads, diff_iter,
                 lock, wpc, wd, patch, proc, reader, signals, expired,
                 returned, dequeued>>

\* the sort raises TypeError on two Difference objects it cannot compare
SortRaises ==
  /\ main = "sort"
  /\ SortComparesObjects(diffs)
  /\ main' = "TypeError"
  /\ UNCHANGED <<planner_vars, writer_vars, verify_vars, diffs, worker_threads, by_size,
                 diff_iter, lock, wpc, wd, patch, proc, reader, signals,
                 expired, returned, dequeued>>

\* for th in threads: th.start()
StartWorkers ==
  /\ main = "start"
  /\ wpc' = [w \in WorkerSet |-> IF w \in Started THEN "acquire" ELSE "unstarted"]
  /\ main' = "join"
  /\ UNCHANGED <<planner_vars, writer_vars, verify_vars, diffs, worker_threads, by_size,
                 diff_iter, lock, wd, patch, proc, reader, signals, expired,
                 returned, dequeued>>

\* while threads: threads.pop().join(): every thread has ended, by the end
\* of worker() or by the exception it raised again
JoinWorkers ==
  /\ main = "join"
  /\ \A w \in Started : wpc[w] \in {"done", "raised"}
  /\ main' = "returned"
  /\ UNCHANGED <<planner_vars, writer_vars, verify_vars, diffs, worker_threads, by_size,
                 diff_iter, lock, wpc, wd, patch, proc, reader, signals,
                 expired, returned, dequeued>>

\* lock.acquire(), before the loop and after ComputePatch
Acquire(w) ==
  /\ wpc[w] \in {"acquire", "reacquire"}
  /\ lock = NoWorker
  /\ lock' = w
  /\ wpc' = [wpc EXCEPT ![w] = IF wpc[w] = "acquire" THEN "next" ELSE "report"]
  /\ WorkerFrame
  /\ UNCHANGED <<diff_iter, wd, patch, proc, reader, signals, expired, returned, dequeued>>

\* for d in diff_iter: the iterator yields the next pair, or the loop ends
NextDiff(w) ==
  /\ wpc[w] = "next"
  /\ IF diff_iter < Len(by_size)
       THEN /\ wd' = [wd EXCEPT ![w] = by_size[diff_iter + 1]]
            /\ diff_iter' = diff_iter + 1
            /\ dequeued' = Append(dequeued, by_size[diff_iter + 1])
            /\ wpc' = [wpc EXCEPT ![w] = "release"]
       ELSE /\ wpc' = [wpc EXCEPT ![w] = "release_end"]
            /\ UNCHANGED <<wd, diff_iter, dequeued>>
  /\ WorkerFrame
  /\ UNCHANGED <<lock, patch, proc, reader, signals, expired, returned>>

\* mutant: the lock is only released after the loop, not before ComputePatch
Release_OnlyAfterLoop(w) ==
  /\ wpc[w] \in {"release", "release_end"}
  /\ lock' = IF wpc[w] = "release" THEN lock ELSE NoWorker
  /\ wpc' = [wpc EXCEPT ![w] = IF wpc[w] = "release" THEN "run" ELSE "done"]
  /\ WorkerFrame
  /\ UNCHANGED <<diff_iter, wd, patch, proc, reader, signals, expired, returned, dequeued>>

\* lock.release(), in the loop before ComputePatch and after the loop
Release(w) ==
  /\ wpc[w] \in {"release", "release_end"}
  /\ lock' = NoWorker
  /\ wpc' = [wpc EXCEPT ![w] = IF wpc[w] = "release" THEN "run" ELSE "done"]
  /\ WorkerFrame
  /\ UNCHANGED <<diff_iter, wd, patch, proc, reader, signals, expired, returned, dequeued>>

\* d.ComputePatch() up to th.start(): the diff process and the thread that
\* reads its output run
RunDiff(w) ==
  /\ wpc[w] = "run"
  /\ proc' = [proc EXCEPT ![wd[w]] = "running"]
  /\ reader' = [reader EXCEPT ![wd[w]] = "alive"]
  /\ wpc' = [wpc EXCEPT ![w] = "join300"]
  /\ WorkerFrame
  /\ UNCHANGED <<diff_iter, lock, wd, patch, signals, expired, returned, dequeued>>

\* d.ComputePatch() raises before the process runs (the temporary files
\* cannot be written, the diff program cannot be executed): the worker
\* logs the exception and raises it again
RunRaises(w) ==
  /\ wpc[w] = "run"
  /\ wpc' = [wpc EXCEPT ![w] = "raised"]
  /\ WorkerFrame
  /\ UNCHANGED <<diff_iter, lock, wd, patch, proc, reader, signals, expired, returned, dequeued>>

\* th.join(timeout=300) returns: th has ended, or the timeout expired
Join300(w) ==
  /\ wpc[w] = "join300"
  /\ \/ /\ reader[wd[w]] = "ended"
        /\ UNCHANGED expired
     \/ /\ reader[wd[w]] = "alive"
        /\ expired' = [expired EXCEPT ![wd[w]] =
                         IF proc[wd[w]] = "running" THEN "running" ELSE "ended"]
  /\ wpc' = [wpc EXCEPT ![w] = "alive1"]
  /\ WorkerFrame
  /\ UNCHANGED <<diff_iter, lock, wd, patch, proc, reader, signals, returned, dequeued>>

\* if th.is_alive(): after join(timeout=300)
IsAlive1(w) ==
  /\ wpc[w] = "alive1"
  /\ wpc' = [wpc EXCEPT ![w] = IF reader[wd[w]] = "alive" THEN "terminate"
                               ELSE "returncode"]
  /\ WorkerFrame
  /\ UNCHANGED <<diff_iter, lock, wd, patch, proc, reader, signals, expired, returned, dequeued>>

\* p.terminate()
Terminate(w) ==
  /\ wpc[w] = "terminate"
  /\ signals' = [signals EXCEPT ![wd[w]] = Append(@, "terminate")]
  /\ wpc' = [wpc EXCEPT ![w] = "join5"]
  /\ WorkerFrame
  /\ UNCHANGED <<diff_iter, lock, wd, patch, proc, reader, expired, returned, dequeued>>

\* th.join(5) returns: th has ended, or the five seconds are over
Join5(w) ==
  /\ wpc[w] = "join5"
  /\ wpc' = [wpc EXCEPT ![w] = "alive2"]
  /\ WorkerFrame
  /\ UNCHANGED <<diff_iter, lock, wd, patch, proc, reader, signals, expired, returned, dequeued>>

\* mutant: kill is sent whether th is alive or not
IsAlive2_AlwaysKill(w) ==
  /\ wpc[w] = "alive2"
  /\ wpc' = [wpc EXCEPT ![w] = "kill"]
  /\ WorkerFrame
  /\ UNCHANGED <<diff_iter, lock, wd, patch, proc, reader, signals, expired, returned, dequeued>>

\* if th.is_alive(): after join(5)
IsAlive2(w) ==
  /\ wpc[w] = "alive2"
  /\ wpc' = [wpc EXCEPT ![w] = IF reader[wd[w]] = "alive" THEN "kill"
                               ELSE "returncode"]
  /\ WorkerFrame
  /\ UNCHANGED <<diff_iter, lock, wd, patch, proc, reader, signals, expired, returned, dequeued>>

\* p.kill()
Kill(w) ==
  /\ wpc[w] = "kill"
  /\ signals' = [signals EXCEPT ![wd[w]] = Append(@, "kill")]
  /\ wpc' = [wpc EXCEPT ![w] = "joinfinal"]
  /\ WorkerFrame
  /\ UNCHANGED <<diff_iter, lock, wd, patch, proc, reader, expired, returned, dequeued>>

\* th.join() returns: th has ended
JoinFinal(w) ==
  /\ wpc[w] = "joinfinal"
  /\ reader[wd[w]] = "ended"
  /\ wpc' = [wpc EXCEPT ![w] = "returncode"]
  /\ WorkerFrame
  /\ UNCHANGED <<diff_iter, lock, wd, patch, proc, reader, signals, expired, returned, dequeued>>

\* if p.returncode != 0: ... to the end of ComputePatch
ReturnCode(w) ==
  /\ wpc[w] = "returncode"
  /\ patch' = [patch EXCEPT ![wd[w]] = PatchAfterDiff(proc[wd[w]])]
  /\ returned' = [returned EXCEPT ![wd[w]] =
                    ComputePatchResult(proc[wd[w]])]
  /\ wpc' = [wpc EXCEPT ![w] = "reacquire"]
  /\ WorkerFrame
  /\ UNCHANGED <<diff_iter, lock, wd, proc, reader, signals, expired, dequeued>>

\* tf, sf, patch = d.GetPatch() and the log line: the line of a patch
\* divides by tf.size, and the worker raises ZeroDivisionError again
\* without releasing the lock
Report(w) ==
  /\ wpc[w] = "report"
  /\ wpc' = [wpc EXCEPT ![w] = IF ReportDividesByZero(wd[w]) THEN "raised"
                               ELSE "next"]
  /\ WorkerFrame
  /\ UNCHANGED <<diff_iter, lock, wd, patch, proc, reader, signals, expired, returned, dequeued>>

\* what a step of the diff process or of its reader leaves alone
ProcessFrame ==
  UNCHANGED <<planner_vars, writer_vars, verify_vars, diffs, worker_threads, main, by_size,
              diff_iter, lock, wpc, wd, patch, signals, expired, returned,
              dequeued>>

\* the diff process of pair d ends by itself, with status 0 or not
ProcExits(d) ==
  /\ proc[d] = "running"
  /\ \E status \in {"exit0", "exit1"} : proc' = [proc EXCEPT ![d] = status]
  /\ UNCHANGED reader
  /\ ProcessFrame

\* the diff process of pair d is ended by a signal ComputePatch sent
ProcSignalled(d) ==
  /\ proc[d] = "running"
  /\ signals[d] # <<>>
  /\ proc' = [proc EXCEPT ![d] = "signalled"]
  /\ UNCHANGED reader
  /\ ProcessFrame

\* p.communicate() returns once the process has ended, and th ends
ReaderEnds(d) ==
  /\ proc[d] \in {"exit0", "exit1", "signalled"}
  /\ reader[d] = "alive"
  /\ reader' = [reader EXCEPT ![d] = "ended"]
  /\ UNCHANGED proc
  /\ ProcessFrame

(***************************************************************************)
(* ComputePatch as the pool sees it: a call that runs for a while without  *)
(* the lock and ends in one of the ways the steps above can end it.        *)
(***************************************************************************)
\* how a ComputePatch call that returns has ended: the state of the process
\* and what the process was doing when join(timeout=300) timed out ("no":
\* it did not time out); a signal only ends a process that was running when
\* the timeout expired
ComputePatchOutcomes ==
  {o \in [status : {"exit0", "exit1", "signalled"}, expired : {"no", "running", "ended"}] :
     o.status = "signalled" => o.expired = "running"}

\* d.ComputePatch() is called and runs
ComputePatchRuns(w) ==
  /\ wpc[w] = "run"
  /\ wpc' = [wpc EXCEPT ![w] = "compute"]
  /\ WorkerFrame
  /\ UNCHANGED <<diff_iter, lock, wd, patch, proc, reader, signals, expired, returned, dequeued>>

\* d.ComputePatch() returns
ComputePatchReturns(w) ==
  /\ wpc[w] = "compute"
  /\ \E o \in ComputePatchOutcomes :
       /\ proc' = [proc EXCEPT ![wd[w]] = o.status]
       /\ expired' = [expired EXCEPT ![wd[w]] = o.expired]
       /\ patch' = [patch EXCEPT ![wd[w]] = PatchAfterDiff(o.status)]
       /\ returned' = [returned EXCEPT ![wd[w]] =
                         ComputePatchResult(o.status)]
  /\ wpc' = [wpc EXCEPT ![w] = "reacquire"]
  /\ WorkerFrame
  /\ UNCHANGED <<diff_iter, lock, wd, reader, signals, dequeued>>

\* d.ComputePatch() raises
ComputePatchRaises(w) ==
  /\ wpc[w] = "compute"
  /\ wpc' = [wpc EXCEPT ![w] = "raised"]
  /\ WorkerFrame
  /\ UNCHANGED <<diff_iter, lock, wd, patch, proc, reader, signals, expired, returned, dequeued>>

\* ComputeDifferences with up to Len(Workers) workers and MaxDiffs pairs
NextPool ==
  \/ Sort
  \/ SortRaises
  \/ StartWorkers
  \/ JoinWorkers
  \/ \E w \in WorkerSet :
       \/ Acquire(w)
       \/ NextDiff(w)
       \/ Release(w)
       \/ ComputePatchRuns(w)
       \/ ComputePatchReturns(w)
       \/ ComputePatchRaises(w)
       \/ Report(w)

SpecPool == InitPool /\ [][NextPool]_vars

(***************************************************************************)
(* Fair scheduling of ComputeDifferences: the main thread and every worker *)
(* thread that can take a step eventually takes one, a ComputePatch that   *)
(* runs eventually ends, and a worker that waits for a lock that is free   *)
(* again and again eventually gets it.                                     *)
(***************************************************************************)
\* a step of worker w other than lock.acquire()
WorkerStep(w) ==
  \/ NextDiff(w)
  \/ Release(w)
  \/ ComputePatchRuns(w)
  \/ ComputePatchReturns(w)
  \/ ComputePatchRaises(w)
  \/ Report(w)

\* a step of the main thread
MainStep == Sort \/ SortRaises \/ StartWorkers \/ JoinWorkers

FairPool ==
  /\ WF_vars(MainStep)
  /\ \A w \in WorkerSet : WF_vars(WorkerStep(w)) /\ SF_vars(Acquire(w))

SpecPoolFair == InitPool /\ [][NextPool]_vars /\ FairPool

\* ComputeDifferences with one worker and one pair, every step of
\* ComputePatch and of the diff process taken one by one
InitPatch ==
  /\ InitPool
  /\ Len(diffs) = 1
  /\ worker_threads = 1

NextPatch ==
  \/ Sort
  \/ StartWorkers
  \/ JoinWorkers
  \/ \E w \in WorkerSet :
       \/ Acquire(w)
       \/ NextDiff(w)
       \/ Release(w)
       \/ RunDiff(w)
       \/ RunRaises(w)
       \/ Join300(w)
       \/ IsAlive1(w)
       \/ Terminate(w)
       \/ Join5(w)
       \/ IsAlive2(w)
       \/ Kill(w)
       \/ JoinFinal(w)
       \/ ReturnCode(w)
       \/ Report(w)
  \/ \E d \in PairIdx : ProcExits(d) \/ ProcSignalled(d) \/ ReaderEnds(d)

SpecPatch == InitPatch /\ [][NextPatch]_vars

(***************************************************************************)
(* BlockDifference.WriteVerifyScript and the run of its script.            *)
(* A BlockDifference is the record of what the script methods read:        *)
(* partition, has_src (self.src is an image), version, check_first_block,  *)
(* touched_src_ranges and src_care_ranges (TRUE: the range set is not      *)
(* empty), extended (self.tgt.extended is not empty).                      *)
(***************************************************************************)
\* largest protocol version of a BlockDifference
MaxVersion == 4

\* the partitions a BlockDifference is made for: "system", and partitions
\* with any other name
BlockParts == PartSet \cup {"product"}

BlockDifferences ==
  [partition : BlockParts, has_src : BOOLEAN, version : 3..MaxVersion,
   check_first_block : BOOLEAN, touched_src_ranges : BOOLEAN,
   src_care_ranges : BOOLEAN, extended : BOOLEAN]

\* ranges: self.touched_src_ranges if touched_blocks_only, else
\* self.src.care_map.subtract(self.src.clobbered_blocks); TRUE: not empty
VerifyRanges(bd, touched_only) ==
  IF touched_only THEN bd.touched_src_ranges ELSE bd.src_care_ranges

\* mutant: the recovery statement is emitted without the endif that follows it
RecoverOrAbort_NoEndif(bd) ==
  (IF bd.check_first_block
     THEN <<Stmt("check_first_block", bd.partition, 0, "")>>
     ELSE <<>>)
  \o <<StmtWithFiles("ifelse_recover", bd.partition,
            IF bd.partition = "system" THEN SYSTEM_RECOVER_FAILURE
            ELSE VENDOR_RECOVER_FAILURE,
            "block_image_recover && block_image_verify",
            block_image_verify_files(bd.partition))>>

\* the else branch for version >= 4: block recovery before the abort
RecoverOrAbort(bd) ==
  (IF bd.check_first_block
     THEN <<Stmt("check_first_block", bd.partition, 0, "")>>
     ELSE <<>>)
  \o <<StmtWithFiles("ifelse_recover", bd.partition,
            IF bd.partition = "system" THEN SYSTEM_RECOVER_FAILURE
            ELSE VENDOR_RECOVER_FAILURE,
            "block_image_recover && block_image_verify",
            block_image_verify_files(bd.partition)),
       Stmt("endif", bd.partition, 0, "")>>

\* mutant: the abort of version 3 has one code for every partition
AbortUnverified_OneCode(bd) ==
  <<Stmt("abort", bd.partition, SYSTEM_VERIFICATION_FAILURE, "unexpected contents"),
    Stmt("endif", bd.partition, 0, "")>>

\* the else branch for version 3: the abort
AbortUnverified(bd) ==
  <<Stmt("abort", bd.partition,
         IF bd.partition = "system" THEN SYSTEM_VERIFICATION_FAILURE
         ELSE VENDOR_VERIFICATION_FAILURE,
         "unexpected contents"),
    Stmt("endif", bd.partition, 0, "")>>

\* mutant: block recovery is tried for every version
WriteVerifyScript_AlwaysRecover(bd, touched_only) ==
  IF ~bd.has_src
    THEN ScriptPrint("Image will be patched unconditionally", bd.partition)
    ELSE IF ~VerifyRanges(bd, touched_only)
      THEN <<>>
      ELSE <<StmtWithFiles("if", bd.partition, 0, "range_sha1 || block_image_verify",
                          block_image_verify_files(bd.partition))>>
           \o ScriptPrint("Verified image", bd.partition)
           \o <<Stmt("else", bd.partition, 0, "")>>
           \o RecoverOrAbort(bd)

\* mutant: no block recovery for any version
WriteVerifyScript_NeverRecover(bd, touched_only) ==
  IF ~bd.has_src
    THEN ScriptPrint("Image will be patched unconditionally", bd.partition)
    ELSE IF ~VerifyRanges(bd, touched_only)
      THEN <<>>
      ELSE <<StmtWithFiles("if", bd.partition, 0, "range_sha1 || block_image_verify",
                          block_image_verify_files(bd.partition))>>
           \o ScriptPrint("Verified image", bd.partition)
           \o <<Stmt("else", bd.partition, 0, "")>>
           \o AbortUnverified(bd)

\* mutant: the condition asks for the range hash and for block_image_verify
WriteVerifyScript_BothRequired(bd, touched_only) ==
  IF ~bd.has_src
    THEN ScriptPrint("Image will be patched unconditionally", bd.partition)
    ELSE IF ~VerifyRanges(bd, touched_only)
      THEN <<>>
      ELSE <<Stmt("if", bd.partition, 0, "range_sha1 && block_image_verify")>>
           \o ScriptPrint("Verified image", bd.partition)
           \o <<Stmt("else", bd.partition, 0, "")>>
           \o (IF bd.version >= 4 THEN RecoverOrAbort(bd) ELSE AbortUnverified(bd))

\* mutant: a full install is verified like an incremental one
WriteVerifyScript_VerifyFull(bd, touched_only) ==
  IF ~VerifyRanges(bd, touched_only)
    THEN <<>>
    ELSE <<StmtWithFiles("if", bd.partition, 0, "range_sha1 || block_image_verify",
                          block_image_verify_files(bd.partition))>>
         \o ScriptPrint("Verified image", bd.partition)
         \o <<Stmt("else", bd.partition, 0, "")>>
         \o (IF bd.version >= 4 THEN RecoverOrAbort(bd) ELSE AbortUnverified(bd))

\* BlockDifference.WriteVerifyScript(script, touched_blocks_only)
WriteVerifyScript(bd, touched_only) ==
  IF ~bd.has_src
    THEN ScriptPrint("Image will be patched unconditionally", bd.partition)
    ELSE IF ~VerifyRanges(bd, touched_only)
      THEN <<>>
      ELSE <<StmtWithFiles("if", bd.partition, 0, "range_sha1 || block_image_verify",
                          block_image_verify_files(bd.partition))>>
           \o ScriptPrint("Verified image", bd.partition)
           \o <<Stmt("else", bd.partition, 0, "")>>
           \o (IF bd.version >= 4 THEN RecoverOrAbort(bd) ELSE AbortUnverified(bd))

(***************************************************************************)
(* BlockDifference.WriteStrictVerifyScript                                 *)
(***************************************************************************)
\* mutant: block_image_verify is an alternative to the range hash
WriteStrictVerifyScript_OrBlockVerify(partition) ==
  ScriptPrint("Verifying", partition)
  \o <<Stmt("verify_or_print", partition, 0, "range_sha1 || block_image_verify")>>

\* range_sha1(...) == "..." && ui_print("Verified.") || ui_print("... has
\* unexpected contents."); the ranges are self.tgt.care_map and the hash is
\* self.tgt.TotalSha1(include_clobbered_blocks=True)
WriteStrictVerifyScript(partition) ==
  ScriptPrint("Verifying", partition)
  \o <<Stmt("verify_or_print", partition, 0, "range_sha1 of tgt.care_map")>>

(***************************************************************************)
(* The updater runs the script on the device: the functions the script     *)
(* calls succeed or fail as the device decides.                            *)
(***************************************************************************)
\* the call of the device function fn, with its result
Call(fn, ok) == [fn |-> fn, ok |-> ok]

\* the number of statements of the kind among s[a], ..., s[b]
CountKind(s, kind, a, b) == Cardinality({j \in a..b : s[j].kind = kind})

\* the place after i of the first statement of the kind that closes the
\* block open at i: as many "if" as "endif" lie between
Closing(s, kind, i) ==
  CHOOSE j \in (i + 1)..Len(s) :
    /\ s[j].kind = kind
    /\ CountKind(s, "if", i + 1, j - 1) = CountKind(s, "endif", i + 1, j - 1)
    /\ \A k \in (i + 1)..(j - 1) :
         ~ /\ s[k].kind = kind
           /\ CountKind(s, "if", i + 1, k - 1) = CountKind(s, "endif", i + 1, k - 1)

\* the calls made to evaluate a condition, the range hash comparing as hash
\* says and block_image_verify returning as verify says: || and && call
\* their right operand only if the left one does not decide; a condition
\* that is one comparison of a range hash makes that one call
ConditionCalls(cond, hash, verify) ==
  CASE cond = "range_sha1 || block_image_verify" ->
         <<Call("range_sha1", hash)>>
         \o (IF hash THEN <<>> ELSE <<Call("block_image_verify", verify)>>)
    [] cond = "range_sha1 && block_image_verify" ->
         <<Call("range_sha1", hash)>>
         \o (IF hash THEN <<Call("block_image_verify", verify)>> ELSE <<>>)
    [] OTHER -> <<Call(cond, hash)>>

\* the value of the condition
ConditionHolds(cond, hash, verify) ==
  CASE cond = "range_sha1 || block_image_verify" -> hash \/ verify
    [] cond = "range_sha1 && block_image_verify" -> hash /\ verify
    [] OTHER -> hash

InitVerify ==
  /\ bdiff \in BlockDifferences
  /\ touched_blocks_only \in BOOLEAN
  /\ written = ""
  /\ install = "idle"
  /\ ip = 0
  /\ calls = <<>>
  /\ aborted = 0
  /\ printed = <<>>
  /\ info_dict = EmptyDict
  /\ source_info_dict = NoneDict
  /\ block_diffs = <<>>
  /\ build_without_vendor = FALSE
  /\ InitRest
  /\ WriterIdle
  /\ PoolIdle

\* what writing a script leaves alone
GeneratorFrame ==
  UNCHANGED <<planner_vars, pool_vars, bdiff, touched_blocks_only, install, ip,
              calls, aborted, printed>>

\* bdiff.WriteVerifyScript(script, touched_blocks_only) on an empty script
WriteVerify ==
  /\ written = ""
  /\ script' = WriteVerifyScript(bdiff, touched_blocks_only)
  /\ written' = "WriteVerifyScript"
  /\ UNCHANGED <<output_zip, write_verify_script>>
  /\ GeneratorFrame

\* bdiff.WritePostInstallVerifyScript(script) on an empty script
WritePostInstallVerify ==
  /\ written = ""
  /\ script' = WritePostInstallVerifyScript(bdiff.partition, bdiff.extended)
  /\ written' = "WritePostInstallVerifyScript"
  /\ UNCHANGED <<output_zip, write_verify_script>>
  /\ GeneratorFrame

\* bdiff.WriteStrictVerifyScript(script) on an empty script
WriteStrictVerify ==
  /\ written = ""
  /\ script' = WriteStrictVerifyScript(bdiff.partition)
  /\ written' = "WriteStrictVerifyScript"
  /\ UNCHANGED <<output_zip, write_verify_script>>
  /\ GeneratorFrame

\* bdiff.WriteScript(script, output_zip, progress, write_verify_script) on an
\* empty script and an empty archive
BlockWriteScript ==
  /\ written = ""
  /\ \E progress \in BOOLEAN, verify \in BOOLEAN :
       /\ script' = BlockDifference_WriteScript(bdiff.partition, bdiff.has_src,
                                                progress, bdiff.extended, verify)
       /\ write_verify_script' = verify
  /\ output_zip' = _WriteUpdateEntries(bdiff.partition, bdiff.has_src)
  /\ written' = "WriteScript"
  /\ GeneratorFrame

\* what a step of the updater leaves alone
UpdaterFrame ==
  UNCHANGED <<planner_vars, pool_vars, writer_vars, bdiff, touched_blocks_only,
              written>>

\* the updater starts to run the script
StartInstall ==
  /\ written # ""
  /\ install = "idle"
  /\ install' = "running"
  /\ ip' = 1
  /\ UNCHANGED <<calls, aborted, printed>>
  /\ UpdaterFrame

\* the script has no statement left
EndInstall ==
  /\ install = "running"
  /\ ip > Len(script)
  /\ install' = "done"
  /\ UNCHANGED <<ip, calls, aborted, printed>>
  /\ UpdaterFrame

\* the next statement of the script
AtKind(kinds) ==
  /\ install = "running"
  /\ ip <= Len(script)
  /\ script[ip].kind \in kinds

\* ui_print(text)
ExecPrint ==
  /\ AtKind({"ui_print"})
  /\ printed' = Append(printed, script[ip].arg)
  /\ ip' = ip + 1
  /\ UNCHANGED <<install, calls, aborted>>
  /\ UpdaterFrame

\* show_progress(...), check_first_block(...) and endif: the run goes on
ExecPlain ==
  /\ AtKind({"show_progress", "check_first_block", "endif"})
  /\ ip' = ip + 1
  /\ UNCHANGED <<install, calls, aborted, printed>>
  /\ UpdaterFrame

\* if ... then: the condition is evaluated, and the run goes on after the
\* "then" or after the "else"
ExecIf ==
  /\ AtKind({"if"})
  /\ \E hash \in BOOLEAN, verify \in BOOLEAN :
       /\ calls' = calls \o ConditionCalls(script[ip].arg, hash, verify)
       /\ ip' = IF ConditionHolds(script[ip].arg, hash, verify) THEN ip + 1
                ELSE Closing(script, "else", ip) + 1
  /\ UNCHANGED <<install, aborted, printed>>
  /\ UpdaterFrame

\* else, reached at the end of the "then" branch: the run goes on after the
\* "endif"
ExecElse ==
  /\ AtKind({"else"})
  /\ ip' = Closing(script, "endif", ip) + 1
  /\ UNCHANGED <<install, calls, aborted, printed>>
  /\ UpdaterFrame

\* abort("E<code>: ...")
ExecAbort ==
  /\ AtKind({"abort"})
  /\ aborted' = script[ip].code
  /\ install' = "aborted"
  /\ UNCHANGED <<ip, calls, printed>>
  /\ UpdaterFrame

\* ifelse(block_image_recover(...) && block_image_verify(...),
\*        ui_print(...), abort("E<code>: ..."))
ExecIfelseRecover ==
  /\ AtKind({"ifelse_recover"})
  /\ \E recover \in BOOLEAN, verify \in BOOLEAN :
       /\ calls' = calls \o <<Call("block_image_recover", recover)>>
                   \o (IF recover THEN <<Call("block_image_verify", verify)>> ELSE <<>>)
       /\ IF recover /\ verify
            THEN /\ ip' = ip + 1
                 /\ printed' = Append(printed, "recovered successfully")
                 /\ UNCHANGED <<install, aborted>>
            ELSE /\ aborted' = script[ip].code
                 /\ install' = "aborted"
                 /\ UNCHANGED <<ip, printed>>
  /\ UpdaterFrame

\* <condition> && ui_print("Verified.") || ui_print("... has unexpected
\* contents."): one of the two texts is shown and the run goes on
ExecVerifyOrPrint ==
  /\ AtKind({"verify_or_print"})
  /\ \E hash \in BOOLEAN, verify \in BOOLEAN :
       /\ calls' = calls \o ConditionCalls(script[ip].arg, hash, verify)
       /\ printed' = Append(printed,
                            IF ConditionHolds(script[ip].arg, hash, verify)
                              THEN "Verified" ELSE "has unexpected contents")
  /\ ip' = ip + 1
  /\ UNCHANGED <<install, aborted>>
  /\ UpdaterFrame

\* block_image_update(...) || abort("E<code>: ...")
ExecUpdateOrAbort ==
  /\ AtKind({"block_image_update_or_abort"})
  /\ \E ok \in BOOLEAN :
       /\ calls' = Append(calls, Call("block_image_update", ok))
       /\ IF ok
            THEN /\ ip' = ip + 1
                 /\ UNCHANGED <<install, aborted>>
            ELSE /\ aborted' = script[ip].code
                 /\ install' = "aborted"
                 /\ UNCHANGED ip
  /\ UNCHANGED printed
  /\ UpdaterFrame

\* delete_recursive("/data/system/package_cache"): whatever it returns, the
\* run goes on
ExecDeleteRecursive ==
  /\ AtKind({"delete_recursive"})
  /\ \E ok \in BOOLEAN : calls' = Append(calls, Call("delete_recursive", ok))
  /\ ip' = ip + 1
  /\ UNCHANGED <<install, aborted, printed>>
  /\ UpdaterFrame

NextVerify ==
  \/ WriteVerify
  \/ WritePostInstallVerify
  \/ WriteStrictVerify
  \/ BlockWriteScript
  \/ StartInstall
  \/ EndInstall
  \/ ExecPrint
  \/ ExecPlain
  \/ ExecIf
  \/ ExecElse
  \/ ExecAbort
  \/ ExecIfelseRecover
  \/ ExecVerifyOrPrint
  \/ ExecUpdateOrAbort
  \/ ExecDeleteRecursive

SpecVerify == InitVerify /\ [][NextVerify]_vars

(***************************************************************************)
(* Vocabulary of the properties.                                           *)
(***************************************************************************)
Constructed == pc = "constructed"

\* the constructor has just returned: _op_list is final (the replay never
\* changes it), so a property of the list alone is stated of this state
Planned == Constructed /\ applied = 0 /\ ~replay_failed

\* the replay is over: every line is applied, or one could not be
ReplayOver == Constructed /\ (replay_failed \/ applied = Len(_op_list))

RECURSIVE SumSizes(_, _)
SumSizes(parts, S) ==
  IF S = {} THEN 0
  ELSE LET p == CHOOSE x \in S : TRUE
       IN parts[p].size + SumSizes(parts, S \ {p})

Members(parts, g) == {p \in PartSet : parts[p].group = g}

\* no group with a limit holds more than its ceiling (ceiling 0: no limit;
\* the group "default" has none)
WithinCeilings(groups, parts) ==
  \A g \in GroupSet :
    (groups[g] # NoneSize /\ groups[g] # 0) => SumSizes(parts, Members(parts, g)) <= groups[g]

\* the declared target topology, as SourceGroups and SourceParts give the
\* declared source topology
TargetGroups == SourceGroups(info_dict)

TargetParts ==
  [p \in PartSet |->
     IF GroupOf(info_dict, p) = None THEN NoPart
     ELSE [group |-> GroupOf(info_dict, p),
           size |-> IF \E i \in 1..Len(block_diffs) : block_diffs[i].partition = p
                      THEN _GetSparseImageSize(
                             block_diffs[CHOOSE i \in 1..Len(block_diffs) :
                                           block_diffs[i].partition = p].tgt)
                      ELSE 0]]

DeclaredWithinCeilings ==
  /\ WithinCeilings(SourceGroups(SourceDict(source_info_dict)),
                    SourceParts(SourceDict(source_info_dict), block_diffs))
  /\ WithinCeilings(TargetGroups, TargetParts)

\* every supplied partition that the target build lists in a group has a
\* non-zero target size
TargetListedAreSized ==
  \A i \in 1..Len(_partition_updates) :
    _partition_updates[i].tgt_group # None => tgt_size(_partition_updates[i]) # 0

\* every supplied partition with a non-zero size in a build is listed in a
\* group of that build
SizedAreListed ==
  \A i \in 1..Len(_partition_updates) :
    /\ tgt_size(_partition_updates[i]) # 0 => _partition_updates[i].tgt_group # None
    /\ src_size(_partition_updates[i]) # 0 => _partition_updates[i].src_group # None

\* the lines of the operation list that are operations
OpIdx == {i \in 1..Len(_op_list) : _op_list[i].op # "#"}

IsOp(i, op) == i \in OpIdx /\ _op_list[i].op = op

\* the DynamicPartitionUpdate of partition p, the DynamicGroupUpdate of g
UpdateOf(p) ==
  _partition_updates[CHOOSE i \in 1..Len(_partition_updates) :
                       _partition_updates[i].partition = p]

GroupUpdateOf(g) ==
  _group_updates[CHOOSE i \in 1..Len(_group_updates) : _group_updates[i].group = g]

\* line i is a resize of a partition whose non-zero target size is smaller
\* than its source size
IsShrinkResize(i) ==
  /\ IsOp(i, "resize")
  /\ tgt_size(UpdateOf(_op_list[i].name)) # 0
  /\ tgt_size(UpdateOf(_op_list[i].name)) < src_size(UpdateOf(_op_list[i].name))

\* line i is a resize of a partition whose target size is larger than its
\* source size
IsGrowResize(i) ==
  /\ IsOp(i, "resize")
  /\ tgt_size(UpdateOf(_op_list[i].name)) > src_size(UpdateOf(_op_list[i].name))

\* line i is a resize_group to less (to more) than the group's source ceiling
IsGroupLower(i) ==
  IsOp(i, "resize_group") /\ _op_list[i].size < GroupUpdateOf(_op_list[i].group).src_size

IsGroupRaise(i) ==
  IsOp(i, "resize_group") /\ _op_list[i].size > GroupUpdateOf(_op_list[i].group).src_size

(***************************************************************************)
(* C1: group ceilings during the replay                                    *)
(***************************************************************************)
\* C1 as stated: for every accepted input whose source and target
\* topologies are within their ceilings, every group is within its ceiling
\* after every prefix of the replay.
C1_AsStated ==
  \/ WithinCeilings(dev_groups, dev_parts)
  \/ ~(Constructed /\ DeclaredWithinCeilings)

\* C1, amended: the same for the lists built without build_without_vendor
\* from inputs in which every partition listed in a target group has a
\* non-zero target size.
C1_WithinCeilings ==
  \/ WithinCeilings(dev_groups, dev_parts)
  \/ ~(Constructed /\ ~build_without_vendor /\ TargetListedAreSized
        /\ DeclaredWithinCeilings)

\* a group was just shrunk onto the exact size of its members
C1_Witness ==
  /\ Constructed /\ DeclaredWithinCeilings /\ ~build_without_vendor
  /\ TargetListedAreSized
  /\ applied > 0 /\ IsGroupLower(applied)
  /\ \E i \in 1..(applied - 1) : IsShrinkResize(i)
  /\ dev_groups[_op_list[applied].group] # 0
  /\ SumSizes(dev_parts, Members(dev_parts, _op_list[applied].group))
       = dev_groups[_op_list[applied].group]

(***************************************************************************)
(* C2: the replay ends in the target topology                              *)
(***************************************************************************)
ReachedTarget ==
  /\ ~replay_failed
  /\ dev_groups = TargetGroups
  /\ dev_parts = TargetParts

\* C2 as stated: for every accepted input, the replay of the whole list
\* ends in exactly the target topology.
C2_AsStated == ReplayOver => ReachedTarget

\* C2, amended: the same for the lists built without build_without_vendor
\* from inputs in which each partition listed in a target group has a
\* non-zero target size and each partition with a non-zero size in a build
\* is listed in a group of that build.
C2_ReachesTarget ==
  (ReplayOver /\ ~build_without_vendor /\ TargetListedAreSized /\ SizedAreListed)
    => ReachedTarget

\* a replay with a group added, a group removed and a partition moved is over
C2_Witness ==
  /\ ReplayOver /\ ~build_without_vendor /\ TargetListedAreSized /\ SizedAreListed
  /\ ReachedTarget
  /\ \E i, j, k \in OpIdx :
       /\ IsOp(i, "remove_group") /\ IsOp(j, "add_group") /\ IsOp(k, "move")
       /\ _op_list[k].group = _op_list[j].group

(***************************************************************************)
(* C3: partitions shrink before groups shrink or go                        *)
(***************************************************************************)
\* C3: every resize that shrinks a partition comes before every
\* resize_group that lowers a ceiling and before every remove_group.
C3_ShrinkPartitionsFirst ==
  Planned =>
    \A i, j \in OpIdx :
      (IsShrinkResize(i) /\ (IsGroupLower(j) \/ IsOp(j, "remove_group"))) => i < j

\* a list with a shrinking partition and the shrinking group that holds it
C3_Witness ==
  /\ Planned
  /\ \E i, j \in OpIdx :
       /\ IsShrinkResize(i) /\ IsGroupLower(j)
       /\ UpdateOf(_op_list[i].name).src_group = _op_list[j].group
       /\ UpdateOf(_op_list[i].name).tgt_group = _op_list[j].group
       /\ _op_list[j].size # 0

(***************************************************************************)
(* C4: groups grow before partitions are added or grow                     *)
(***************************************************************************)
\* C4: every add_group and every resize_group that raises a ceiling comes
\* before every add and before every resize that grows a partition.
C4_GrowGroupsFirst ==
  Planned =>
    \A i, j \in OpIdx :
      ((IsOp(i, "add_group") \/ IsGroupRaise(i)) /\ (IsOp(j, "add") \/ IsGrowResize(j)))
        => i < j

\* a list that adds a group, raises another, adds a partition and grows one
C4_Witness ==
  /\ Planned
  /\ \E i, j, k, l \in OpIdx :
       IsOp(i, "add_group") /\ IsGroupRaise(j) /\ IsOp(k, "add") /\ IsGrowResize(l)
       /\ _op_list[k].name # _op_list[l].name

(***************************************************************************)
(* C5: a partition changes group through the group "default"               *)
(***************************************************************************)
\* the partition's source group and target group both exist and differ
ChangesGroup(u) ==
  u.src_group # None /\ u.tgt_group # None /\ u.src_group # u.tgt_group

\* before line k, group g exists with its target ceiling
HasTargetCeilingBefore(g, k) ==
  /\ \E m \in 1..Len(_group_updates) : _group_updates[m].group = g
  /\ GroupUpdateOf(g).tgt_size # NoneSize
  /\ \/ GroupUpdateOf(g).src_size = GroupUpdateOf(g).tgt_size
     \/ \E i \in OpIdx :
          /\ i < k
          /\ IsOp(i, "add_group") \/ IsOp(i, "resize_group")
          /\ _op_list[i].group = g
          /\ _op_list[i].size = GroupUpdateOf(g).tgt_size

\* the list moves u's partition to "default" and later to its target group,
\* with the target group's add_group or resize_group between the two, and
\* moves it to no other group before that group has its target ceiling
MovesThroughDefault(u) ==
  /\ \E i, j \in OpIdx :
       /\ i < j
       /\ _op_list[i] = Line("move", u.partition, DefaultGroup, 0)
       /\ _op_list[j] = Line("move", u.partition, u.tgt_group, 0)
       /\ \A k \in OpIdx :
            ((IsOp(k, "add_group") \/ IsOp(k, "resize_group"))
               /\ _op_list[k].group = u.tgt_group) => (i < k /\ k < j)
  /\ \A k \in OpIdx :
       (IsOp(k, "move") /\ _op_list[k].name = u.partition
          /\ _op_list[k].group # DefaultGroup)
         => HasTargetCeilingBefore(_op_list[k].group, k)

\* C5 as stated: every list moves every partition that changes group
\* through "default", around the target group's own operation.
C5_AsStated ==
  Planned =>
    \A n \in 1..Len(_partition_updates) :
      ChangesGroup(_partition_updates[n]) => MovesThroughDefault(_partition_updates[n])

\* C5, amended: the same for the lists built without build_without_vendor.
C5_MovesThroughDefault ==
  (Planned /\ ~build_without_vendor) =>
    \A n \in 1..Len(_partition_updates) :
      ChangesGroup(_partition_updates[n]) => MovesThroughDefault(_partition_updates[n])

\* a partition goes from a group that is removed to a group that is added
C5_Witness ==
  /\ Planned /\ ~build_without_vendor
  /\ \E n \in 1..Len(_partition_updates), i, j \in OpIdx :
       /\ ChangesGroup(_partition_updates[n])
       /\ src_size(_partition_updates[n]) = tgt_size(_partition_updates[n])
       /\ _op_list[i] = Line("remove_group", "", _partition_updates[n].src_group, 0)
       /\ IsOp(j, "add_group")
       /\ _op_list[j].group = _partition_updates[n].tgt_group
       /\ _op_list[j].size >= tgt_size(_partition_updates[n])
       /\ _op_list[j].size # 0

(***************************************************************************)
(* C6: a full install starts with remove_all_groups                        *)
(***************************************************************************)
FirstOpIsRemoveAll ==
  /\ NextOp(_op_list, 0) <= Len(_op_list)
  /\ _op_list[NextOp(_op_list, 0)].op = "remove_all_groups"

\* C6 as stated: without source_info_dict the first operation of the list
\* is remove_all_groups, whatever the other arguments.
C6_AsStated ==
  (Planned /\ source_info_dict = NoneDict) => FirstOpIsRemoveAll

\* C6, amended: without source_info_dict and without build_without_vendor
\* the first operation of the list is remove_all_groups.
C6_RemoveAllFirst ==
  (Planned /\ source_info_dict = NoneDict /\ ~build_without_vendor)
    => FirstOpIsRemoveAll

\* a full install that adds both partitions
C6_Witness ==
  /\ Planned /\ source_info_dict = NoneDict /\ ~build_without_vendor
  /\ FirstOpIsRemoveAll
  /\ Cardinality({i \in OpIdx : IsOp(i, "add")}) = Len(Parts)

(***************************************************************************)
(* C7: build_without_vendor resizes only                                   *)
(***************************************************************************)
\* C7: with build_without_vendor the operations of the list are one
\* "resize <partition> <target size>" for each supplied partition, and
\* nothing else.
C7_ResizeOnly ==
  (Planned /\ build_without_vendor) =>
    /\ \A i \in OpIdx : _op_list[i].op = "resize"
    /\ Cardinality(OpIdx) = Len(block_diffs)
    /\ \A n \in 1..Len(block_diffs) :
         /\ Cardinality({i \in OpIdx : _op_list[i].name = block_diffs[n].partition}) = 1
         /\ \A i \in OpIdx :
              _op_list[i].name = block_diffs[n].partition
                => _op_list[i].size = _GetSparseImageSize(block_diffs[n].tgt)

\* a system-only list for two partitions, one of them without target image
C7_Witness ==
  /\ Planned /\ build_without_vendor
  /\ Len(block_diffs) = Len(Parts)
  /\ \E n, m \in 1..Len(block_diffs) :
       block_diffs[n].tgt = 0 /\ block_diffs[m].tgt # 0 /\ block_diffs[m].src = NoneImg

(***************************************************************************)
(* C8: what does not change gets no operation                              *)
(***************************************************************************)
GroupOps == {"add_group", "remove_group", "resize_group"}

NoChangeNoOp ==
  /\ \A n \in 1..Len(_partition_updates) :
       (/\ _partition_updates[n].src_group = _partition_updates[n].tgt_group
        /\ src_size(_partition_updates[n]) = tgt_size(_partition_updates[n]))
         => \A i \in OpIdx : _op_list[i].name # _partition_updates[n].partition
  /\ \A m \in 1..Len(_group_updates) :
       _group_updates[m].src_size = _group_updates[m].tgt_size
         => \A i \in OpIdx :
              _op_list[i].op \in GroupOps => _op_list[i].group # _group_updates[m].group

\* C8 as stated: in every list, no operation names a partition whose group
\* and size do not change, and no group operation names a group whose
\* ceiling does not change.
C8_AsStated == Planned => NoChangeNoOp

\* C8, amended: the same for the lists built without build_without_vendor.
C8_NoChangeNoOp == (Planned /\ ~build_without_vendor) => NoChangeNoOp

\* one partition and its group stay as they are while the other partition
\* and the other group change
C8_Witness ==
  /\ Planned /\ ~build_without_vendor
  /\ \E n, n2 \in 1..Len(_partition_updates), m, m2 \in 1..Len(_group_updates) :
       /\ _partition_updates[n].src_group = _partition_updates[n].tgt_group
       /\ _partition_updates[n].src_group = _group_updates[m].group
       /\ src_size(_partition_updates[n]) = tgt_size(_partition_updates[n])
       /\ src_size(_partition_updates[n]) # 0
       /\ _group_updates[m].src_size = _group_updates[m].tgt_size
       /\ \E i \in OpIdx : _op_list[i].name = _partition_updates[n2].partition
       /\ \E i \in OpIdx : /\ _op_list[i].op \in GroupOps
                           /\ _op_list[i].group = _group_updates[m2].group

(***************************************************************************)
(* C10: a listed partition without BlockDifference                         *)
(***************************************************************************)
\* a group of the target build or of the source build lists a partition
\* for which block_diffs holds no BlockDifference
ListedWithoutBlockDiff ==
  \E d \in {info_dict, SourceDict(source_info_dict)} :
    \E g \in Range(d.groups) :
      \E p \in d.partition_list[g] :
        \A i \in 1..Len(block_diffs) : block_diffs[i].partition # p

\* C10: when a listed partition has no BlockDifference, the construction
\* fails with an assertion error.
C10_MissingBlockDiffFails ==
  (pc # "new" /\ ListedWithoutBlockDiff) => pc = "AssertionError"

\* the construction failed for a partition that only the source build lists,
\* every other assertion being satisfied
C10_Witness ==
  /\ pc = "AssertionError"
  /\ ListedWithoutBlockDiff
  /\ block_diffs = <<>>
  /\ info_dict.dynamic_partition_list = {}
  /\ SourceDict(source_info_dict).dynamic_partition_list = {}
  /\ \A g \in Range(info_dict.groups) : info_dict.partition_list[g] = {}

(***************************************************************************)
(* C11: the declared dynamic partitions and the supplied images            *)
(***************************************************************************)
\* the partitions of block_diffs whose target image has a non-zero size
SuppliedWithTarget ==
  {block_diffs[i].partition :
     i \in {j \in 1..Len(block_diffs) : _GetSparseImageSize(block_diffs[j].tgt) # 0}}

\* the partitions of block_diffs whose source image has a non-zero size
SuppliedWithSource ==
  {block_diffs[i].partition :
     i \in {j \in 1..Len(block_diffs) : _GetSparseImageSize(block_diffs[j].src) # 0}}

DeclaredMatchesSupplied ==
  /\ SuppliedWithTarget = info_dict.dynamic_partition_list
  /\ SuppliedWithSource = SourceDict(source_info_dict).dynamic_partition_list

\* C11: the construction succeeds only if the partitions supplied with a
\* non-zero target size are exactly the declared target dynamic partitions
\* and those with a non-zero source size exactly the declared source ones;
\* with any difference the construction ends in an assertion error.
C11_DeclaredMatchesSupplied ==
  /\ pc = "constructed" => DeclaredMatchesSupplied
  /\ (pc # "new" /\ ~DeclaredMatchesSupplied) => pc = "AssertionError"

\* the construction failed although every other assertion is satisfied: the
\* target build declares a partition supplied without target image, and a
\* partition supplied with a source image is not declared by the source build
C11_Witness ==
  /\ pc = "AssertionError"
  /\ NoDuplicates(block_diffs)
  /\ AllListedHaveBlockDiff(info_dict, block_diffs)
  /\ AllListedHaveBlockDiff(SourceDict(source_info_dict), block_diffs)
  /\ SuppliedWithTarget = {}
  /\ info_dict.dynamic_partition_list # {}
  /\ SuppliedWithSource # {}
  /\ SourceDict(source_info_dict).dynamic_partition_list = {}

(***************************************************************************)
(* C12: the block updates around the metadata update                       *)
(***************************************************************************)
ScriptIdx == 1..Len(script)

\* WriteScript has returned
Written == pc = "constructed" /\ script # <<>>

\* the places of the update_dynamic_partitions calls
MetadataCalls == {i \in ScriptIdx : script[i].kind = "update_dynamic_partitions"}

\* the places of the block updates of partition p
BlockUpdates(p) ==
  {i \in ScriptIdx : script[i].kind = "block_image_update_or_abort" /\ script[i].partition = p}

\* the BlockDifference bd has a non-zero target size smaller than its source size
ShrinkingDiff(bd) ==
  /\ _GetSparseImageSize(bd.tgt) # 0
  /\ _GetSparseImageSize(bd.tgt) < _GetSparseImageSize(bd.src)

\* the BlockDifference bd has a non-zero target size that is not smaller
\* than its source size (a growing, a new or a same-size partition)
OtherSizedDiff(bd) ==
  /\ _GetSparseImageSize(bd.tgt) # 0
  /\ _GetSparseImageSize(bd.tgt) >= _GetSparseImageSize(bd.src)

\* C12: the script WriteScript emits holds exactly one
\* update_dynamic_partitions call; every shrinking partition has its block
\* update before that call and none after it, every other partition with a
\* non-zero target size has its block update after that call and none before.
C12_UpdatesAroundMetadata ==
  Written =>
    /\ Cardinality(MetadataCalls) = 1
    /\ \A k \in 1..Len(block_diffs), m \in MetadataCalls :
         /\ ShrinkingDiff(block_diffs[k]) =>
              /\ BlockUpdates(block_diffs[k].partition) # {}
              /\ \A i \in BlockUpdates(block_diffs[k].partition) : i < m
         /\ OtherSizedDiff(block_diffs[k]) =>
              /\ BlockUpdates(block_diffs[k].partition) # {}
              /\ \A i \in BlockUpdates(block_diffs[k].partition) : i > m

\* a script written for a partition that shrinks and one that does not
C12_Witness ==
  /\ Written
  /\ \E k, l \in 1..Len(block_diffs) :
       /\ ShrinkingDiff(block_diffs[k])
       /\ OtherSizedDiff(block_diffs[l])
       /\ BlockUpdates(block_diffs[k].partition) # {}
       /\ BlockUpdates(block_diffs[l].partition) # {}

(***************************************************************************)
(* C13: the largest target files first                                     *)
(***************************************************************************)
\* the pairs the iterator yielded before its k-th pair
DequeuedBefore(k) == {dequeued[j] : j \in 1..(k - 1)}

\* C13: for any number of workers and any interleaving, a pair is yielded
\* to a worker only after every pair with a strictly larger target size: the
\* first pair yielded has the largest target size, and the sizes of the
\* pairs yielded never increase.
C13_LargestFirst ==
  /\ \A k \in 1..Len(dequeued), i \in PairIdx :
       diffs[i].tf_size > diffs[dequeued[k]].tf_size => i \in DequeuedBefore(k)
  /\ \A j, k \in 1..Len(dequeued) :
       j < k => diffs[dequeued[j]].tf_size >= diffs[dequeued[k]].tf_size

\* two workers have each taken one of two pairs that the caller passed
\* smallest first
C13_Witness ==
  /\ Len(diffs) >= 2
  /\ diffs[1].tf_size < diffs[2].tf_size
  /\ dequeued = <<2, 1>>
  /\ \E w, x \in Started : w # x /\ wd[w] = 2 /\ wd[x] = 1

(***************************************************************************)
(* C14: what has been done when ComputeDifferences returns                 *)
(***************************************************************************)
\* the pairs on which a ComputePatch call has run to its return
Diffed == {i \in PairIdx : returned[i] # <<>>}

\* C14: when ComputeDifferences returns with at least one worker, every
\* worker thread has ended and ComputePatch has run to completion on every
\* pair: no pair is left undiffed or is still being diffed.
C14_AsStated ==
  (main = "returned" /\ worker_threads >= 1) =>
    /\ \A w \in Started : wpc[w] \in {"done", "raised"}
    /\ Diffed = PairIdx

(***************************************************************************)
(* C15: a diff that fails                                                  *)
(***************************************************************************)
\* the pairs whose diff failed: ComputePatch returned and the process had
\* ended with a non-zero status of its own ("exit1") or by the signal sent
\* after the timeout ("signalled")
FailedPairs ==
  {d \in PairIdx : returned[d] # <<>> /\ proc[d] \in {"exit1", "signalled"}}

\* C15: a pair whose diff failed has patch None, the worker that hit the
\* failure is not stopped by it, and when ComputeDifferences returns every
\* other pair has been diffed and has the patch of its own diff.
C15_AsStated ==
  /\ \A d \in FailedPairs : patch[d] = None
  /\ \A w \in Started : (wd[w] \in FailedPairs) => wpc[w] # "raised"
  /\ (main = "returned" /\ FailedPairs # {}) =>
       \A i \in PairIdx : /\ returned[i] # <<>>
                          /\ patch[i] = PatchAfterDiff(proc[i])

(***************************************************************************)
(* C16: the timeout of a diff                                              *)
(***************************************************************************)
\* ComputePatch has returned on pair d, and the process of d was still
\* running when join(timeout=300) timed out
ReturnedAfterTimeout(d) == returned[d] # <<>> /\ expired[d] = "running"

\* C16 as stated: when the process has not finished at the expiry of the
\* timeout, the process is sent terminate and the pair's patch is None after
\* ComputePatch returns.
C16_AsStated ==
  \A d \in PairIdx :
    ReturnedAfterTimeout(d) =>
      /\ \E k \in 1..Len(signals[d]) : signals[d][k] = "terminate"
      /\ patch[d] = None

\* C16, amended: when the process has not finished at the expiry of the
\* timeout, it has ended when ComputePatch returns, and the pair's patch is
\* None unless the process ended by itself with status 0; a process that no
\* signal was sent to ended by itself, and the first signal sent is terminate.
C16_NoPatchUnlessExitZero ==
  \A d \in PairIdx :
    ReturnedAfterTimeout(d) =>
      /\ proc[d] \in {"exit0", "exit1", "signalled"}
      /\ proc[d] # "exit0" => (patch[d] = None /\ returned[d] = <<None, None, None>>)
      /\ signals[d] = <<>> => proc[d] \in {"exit0", "exit1"}
      /\ signals[d] # <<>> => Head(signals[d]) = "terminate"

\* the timeout expired on a running process, terminate ended it, and
\* ComputePatch returned with no patch
C16_Witness ==
  \E d \in PairIdx :
    /\ ReturnedAfterTimeout(d)
    /\ signals[d] = <<"terminate">>
    /\ proc[d] = "signalled"
    /\ patch[d] = None

(***************************************************************************)
(* C17: the lock guards the iterator and nothing else                      *)
(***************************************************************************)
\* the worker w is inside its call d.ComputePatch()
InComputePatch(w) ==
  wpc[w] \in {"compute", "join300", "alive1", "terminate", "join5", "alive2",
              "kill", "joinfinal", "returncode"}

\* the step advances the shared iterator
IteratorAdvances == diff_iter' # diff_iter

\* the step is taken by a worker that holds the lock before and after it
StepOfLockHolder ==
  \E w \in Started : /\ lock = w /\ lock' = w
                     /\ wpc[w] = "next" /\ wpc'[w] # wpc[w]
                     /\ \A x \in WorkerSet \ {w} : wpc'[x] = wpc[x]

\* C17: only a worker that holds the lock advances the shared iterator, and
\* no worker holds the lock while its ComputePatch call is running.
C17_LockOnlyAroundIterator ==
  /\ [][IteratorAdvances => StepOfLockHolder]_vars
  /\ [](\A w \in WorkerSet : InComputePatch(w) => lock # w)

\* two workers are inside ComputePatch at once, each on its own pair, and
\* the lock is released
C17_Witness ==
  /\ lock = NoWorker
  /\ \E w, x \in Started : /\ w # x
                           /\ InComputePatch(w) /\ InComputePatch(x)
                           /\ wd[w] # wd[x]

(***************************************************************************)
(* C18: for an incremental BlockDifference of version 3 whose verify       *)
(* ranges are not empty, the script of WriteVerifyScript holds no          *)
(* block_image_recover call, and a run in which the range hash comparison  *)
(* and block_image_verify both fail never passes: it aborts, with code     *)
(* 1000 for partition "system" and 2000 for any other.                     *)
(***************************************************************************)
\* WriteVerifyScript wrote the script of an incremental update that has
\* blocks to check
IncrementalVerifyWritten ==
  /\ written = "WriteVerifyScript"
  /\ bdiff.has_src
  /\ VerifyRanges(bdiff, touched_blocks_only)

\* the run compared the range hash and called block_image_verify, and both
\* failed
HashAndVerifyFailed ==
  /\ Len(calls) >= 2
  /\ calls[1] = Call("range_sha1", FALSE)
  /\ calls[2] = Call("block_image_verify", FALSE)

\* the calls of block_image_recover the run has made
RecoverCalls == {i \in 1..Len(calls) : calls[i].fn = "block_image_recover"}

\* the script holds a call of block_image_recover
ScriptRecovers == \E i \in 1..Len(script) : script[i].kind = "ifelse_recover"

C18_Version3AbortsUnrecovered ==
  (IncrementalVerifyWritten /\ bdiff.version = 3) =>
    /\ ~ScriptRecovers
    /\ RecoverCalls = {}
    /\ HashAndVerifyFailed =>
         /\ install # "done"
         /\ install = "running" => ENABLED ExecAbort
         /\ install = "aborted" =>
              aborted = IF bdiff.partition = "system" THEN 1000 ELSE 2000

C18_Witness ==
  /\ IncrementalVerifyWritten
  /\ bdiff.version = 3
  /\ bdiff.partition = "system"
  /\ HashAndVerifyFailed
  /\ install = "aborted"
  /\ aborted = 1000

(***************************************************************************)
(* C19: for an incremental BlockDifference of version 4 or higher whose    *)
(* verify ranges are not empty, a run in which the range hash comparison   *)
(* and block_image_verify both fail calls block_image_recover once, before *)
(* any abort; it aborts exactly when that recovery or the                  *)
(* block_image_verify after it fails, with code 1004 for partition         *)
(* "system" and 2004 for any other, never with 1000 or 2000.               *)
(***************************************************************************)
\* block_image_recover and the block_image_verify after it both succeeded
Recovered ==
  /\ Len(calls) = 4
  /\ calls[3] = Call("block_image_recover", TRUE)
  /\ calls[4] = Call("block_image_verify", TRUE)

C19_RecoverOnceBeforeAbort ==
  (IncrementalVerifyWritten /\ bdiff.version >= 4) =>
    /\ aborted \notin {1000, 2000}
    /\ Cardinality(RecoverCalls) <= 1
    /\ install = "aborted" =>
         /\ HashAndVerifyFailed
         /\ RecoverCalls = {3}
         /\ ~Recovered
         /\ aborted = IF bdiff.partition = "system" THEN 1004 ELSE 2004
    /\ (HashAndVerifyFailed /\ install = "done") =>
         /\ RecoverCalls = {3}
         /\ Recovered

C19_Witness ==
  /\ IncrementalVerifyWritten
  /\ bdiff.version >= 4
  /\ bdiff.partition = "system"
  /\ HashAndVerifyFailed
  /\ Len(calls) = 4
  /\ calls[3] = Call("block_image_recover", TRUE)
  /\ calls[4] = Call("block_image_verify", FALSE)
  /\ install = "aborted"
  /\ aborted = 1004

(***************************************************************************)
(* C20: for an incremental BlockDifference of any version, a run of the    *)
(* script of WriteVerifyScript in which the range hash of the device       *)
(* equals the expected hash, or block_image_verify succeeds, ends without  *)
(* an abort and without a call of block_image_recover.                     *)
(***************************************************************************)
\* the range hash matched, or it did not and block_image_verify succeeded
HashOrVerifyPassed ==
  /\ Len(calls) >= 1
  /\ calls[1].fn = "range_sha1"
  /\ \/ calls[1].ok
     \/ /\ Len(calls) >= 2
        /\ calls[2] = Call("block_image_verify", TRUE)

C20_PassesWhenHashOrVerifyPasses ==
  (written = "WriteVerifyScript" /\ bdiff.has_src /\ HashOrVerifyPassed) =>
    /\ install \in {"running", "done"}
    /\ aborted = 0
    /\ RecoverCalls = {}
    /\ install = "running" => ~AtKind({"abort", "ifelse_recover", "if"})

C20_Witness ==
  /\ written = "WriteVerifyScript"
  /\ bdiff.has_src
  /\ bdiff.version = MaxVersion
  /\ Len(calls) = 2
  /\ calls[1] = Call("range_sha1", FALSE)
  /\ calls[2] = Call("block_image_verify", TRUE)
  /\ install = "done"
(***************************************************************************)
(* C21: for a full install (a BlockDifference without source image), of    *)
(* any version, the script of WriteVerifyScript is one log line: it holds  *)
(* no range_sha1 comparison, no block_image_verify, no block_image_recover *)
(* and no abort, and its run calls none of them.                           *)
(***************************************************************************)
\* the kinds of the statements that compare a hash, verify, recover or abort
CheckingKinds == {"if", "ifelse_recover", "abort"}

C21_FullInstallOnlyLogs ==
  (written = "WriteVerifyScript" /\ ~bdiff.has_src) =>
    /\ Len(script) = 1
    /\ script[1].kind = "ui_print"
    /\ \A i \in 1..Len(script) : script[i].kind \notin CheckingKinds
    /\ calls = <<>>
    /\ aborted = 0
    /\ install # "aborted"

C21_Witness ==
  /\ written = "WriteVerifyScript"
  /\ ~bdiff.has_src
  /\ bdiff.version = MaxVersion
  /\ bdiff.src_care_ranges
  /\ install = "done"
(***************************************************************************)
(* C22: a run of the script of WritePostInstallVerifyScript aborts with    *)
(* code 1002 ("system") or 2002 (any other partition) when the hash over   *)
(* the target care map does not match; when the target has extended blocks *)
(* and the first hash matched but the extended blocks do not hash as zero  *)
(* blocks, it aborts with code 1003 or 2003; it prints that the image is   *)
(* verified only when every check the script holds has passed.             *)
(***************************************************************************)
\* the two comparisons of the post-install script
CareMapHash == "range_sha1 of tgt.care_map"
ExtendedHash == "range_sha1 of tgt.extended"

\* the run cannot end normally: it has aborted with the code, or the abort
\* with the code is its next statement
AbortsWith(code) ==
  /\ install \in {"running", "aborted"}
  /\ install = "aborted" => aborted = code
  /\ install = "running" => (AtKind({"abort"}) /\ script[ip].code = code)

\* ui_print has shown the text
Printed(text) == \E i \in 1..Len(printed) : printed[i] = text

C22_PostInstallAbortCodes ==
  written = "WritePostInstallVerifyScript" =>
    /\ (Len(calls) >= 1 /\ calls[1] = Call(CareMapHash, FALSE)) =>
         /\ calls = <<Call(CareMapHash, FALSE)>>
         /\ AbortsWith(IF bdiff.partition = "system" THEN 1002 ELSE 2002)
    /\ (Len(calls) >= 2 /\ calls[2] = Call(ExtendedHash, FALSE)) =>
         /\ bdiff.extended
         /\ calls = <<Call(CareMapHash, TRUE), Call(ExtendedHash, FALSE)>>
         /\ AbortsWith(IF bdiff.partition = "system" THEN 1003 ELSE 2003)
    /\ Printed("Verified image") =>
         /\ calls = IF bdiff.extended
                      THEN <<Call(CareMapHash, TRUE), Call(ExtendedHash, TRUE)>>
                      ELSE <<Call(CareMapHash, TRUE)>>
         /\ aborted = 0
    /\ install = "done" => Printed("Verified image")
    /\ install = "aborted" => \E i \in 1..Len(calls) : ~calls[i].ok

C22_Witness ==
  /\ written = "WritePostInstallVerifyScript"
  /\ bdiff.extended
  /\ bdiff.partition = "vendor"
  /\ calls = <<Call(CareMapHash, TRUE), Call(ExtendedHash, FALSE)>>
  /\ install = "aborted"
  /\ aborted = 2003
(***************************************************************************)
(* C23: the script of WriteStrictVerifyScript holds one comparison, of the *)
(* device's range hash over the target care map with the target hash that  *)
(* includes the clobbered blocks, and no block_image_verify alternative,   *)
(* recovery call or other check; its run prints "Verified" only when the   *)
(* two hashes are equal.                                                   *)
(***************************************************************************)
\* the places of the script that compare or verify
StrictChecks ==
  {i \in 1..Len(script) :
     script[i].kind \in CheckingKinds \cup {"verify_or_print", "block_image_update_or_abort"}}

C23_StrictVerifyHashOnly ==
  written = "WriteStrictVerifyScript" =>
    /\ Cardinality(StrictChecks) = 1
    /\ \A i \in StrictChecks :
         script[i].kind = "verify_or_print" /\ script[i].arg = CareMapHash
    /\ \A i \in 1..Len(calls) : calls[i].fn = CareMapHash
    /\ Len(calls) <= 1
    /\ Printed("Verified") => calls = <<Call(CareMapHash, TRUE)>>
    /\ Printed("has unexpected contents") => calls = <<Call(CareMapHash, FALSE)>>
    /\ install = "done" => (Printed("Verified") \/ Printed("has unexpected contents"))

C23_Witness ==
  /\ written = "WriteStrictVerifyScript"
  /\ install = "done"
  /\ calls = <<Call(CareMapHash, FALSE)>>
  /\ Printed("has unexpected contents")
  /\ ~Printed("Verified")
(***************************************************************************)
(* C24: in a run of the statements of _WriteUpdate, a block_image_update   *)
(* that fails aborts with code 1001 ("system") or 2001 (any other          *)
(* partition) and the package cache is not deleted; a block_image_update   *)
(* that succeeds is followed by the deletion of the package cache.         *)
(***************************************************************************)
\* the calls of the function the run has made
CallsOf(fn) == {i \in 1..Len(calls) : calls[i].fn = fn}

C24_UpdateFailureAbortsBeforeDelete ==
  written = "WriteScript" =>
    /\ \A i \in CallsOf("block_image_update") :
         IF calls[i].ok
           THEN /\ (install = "running" /\ Len(calls) = i) =>
                     AtKind({"delete_recursive"})
                /\ (install = "done" \/ Len(calls) > i) =>
                     (Len(calls) > i /\ calls[i + 1].fn = "delete_recursive")
           ELSE /\ Len(calls) = i
                /\ CallsOf("delete_recursive") = {}
                /\ install = "aborted"
                /\ aborted = IF bdiff.partition = "system" THEN 1001 ELSE 2001
    /\ \A j \in CallsOf("delete_recursive") :
         j > 1 /\ calls[j - 1] = Call("block_image_update", TRUE)
    /\ Cardinality(CallsOf("block_image_update")) <= 1
    /\ install = "done" => CallsOf("block_image_update") # {}

C24_Witness ==
  /\ written = "WriteScript"
  /\ bdiff.partition = "vendor"
  /\ calls = <<Call("block_image_update", FALSE)>>
  /\ install = "aborted"
  /\ aborted = 2001

\* a run in which the update succeeded and the package cache was deleted
C24_WitnessSuccess ==
  /\ written = "WriteScript"
  /\ install = "done"
  /\ Len(calls) >= 2
  /\ calls[1] = Call("block_image_update", TRUE)
  /\ calls[2].fn = "delete_recursive"
(***************************************************************************)
(* C25: the abort codes are scoped to the class of the partition. The code *)
(* knows two classes, "system" and every partition of another name. For    *)
(* each statement with an abort code that a method emits for a partition,  *)
(* the same method emits for a partition of the other class the same       *)
(* statement with a different code, and for a partition of the same class  *)
(* the same code; this holds for the five failure kinds (verification,     *)
(* update, unexpected contents, non-zero contents, recover).               *)
(***************************************************************************)
\* if partition == "system": ... else: ...
PartitionClass(p) == IF p = "system" THEN "system" ELSE "vendor"

\* the script the method that wrote the script writes for bd
ScriptFor(bd) ==
  CASE written = "WriteVerifyScript" -> WriteVerifyScript(bd, touched_blocks_only)
    [] written = "WritePostInstallVerifyScript" ->
         WritePostInstallVerifyScript(bd.partition, bd.extended)
    [] written = "WriteStrictVerifyScript" -> WriteStrictVerifyScript(bd.partition)
    [] written = "WriteScript" ->
         BlockDifference_WriteScript(
           bd.partition, bd.has_src,
           \E i \in 1..Len(script) : script[i].kind = "show_progress",
           bd.extended, write_verify_script)
    [] OTHER -> <<>>

\* the places of the script that hold an abort code
Coded == {i \in 1..Len(script) : script[i].code # 0}

\* the abort codes the claim names, by class
ClassCodes(class) == IF class = "system" THEN 1000..1004 ELSE 2000..2004

C25_CodesScopedToClass ==
  written # "" =>
    /\ script = ScriptFor(bdiff)
    /\ \A i \in Coded : script[i].code \in ClassCodes(PartitionClass(bdiff.partition))
    /\ aborted # 0 => \E i \in Coded : script[i].code = aborted
    /\ \A q \in BlockParts :
         LET other == ScriptFor([bdiff EXCEPT !.partition = q])
         IN /\ Len(other) = Len(script)
            /\ \A i \in Coded :
                 /\ other[i].kind = script[i].kind
                 /\ other[i].arg = script[i].arg
                 /\ (other[i].code = script[i].code)
                      <=> (PartitionClass(q) = PartitionClass(bdiff.partition))

C25_Witness ==
  /\ written = "WriteScript"
  /\ write_verify_script
  /\ bdiff.extended
  /\ bdiff.partition = "product"
  /\ Cardinality({script[i].code : i \in Coded}) = 3
  /\ install = "aborted"
  /\ aborted = 2003
(***************************************************************************)
(* C26: the tuple ComputePatch returned for a pair is the tuple GetPatch   *)
(* returns for it afterwards, when the diff succeeded and when it failed.  *)
(***************************************************************************)
C26_AsStated ==
  \A d \in PairIdx : returned[d] # <<>> => returned[d] = GetPatch(d)

\* the part that holds: the two tuples are equal when the diff succeeded and
\* have the same patch (None) when it failed
C26_SamePatch ==
  \A d \in PairIdx :
    returned[d] # <<>> =>
      /\ returned[d][3] = GetPatch(d)[3]
      /\ proc[d] = "exit0" => returned[d] = GetPatch(d)
      /\ proc[d] # "exit0" => returned[d] # GetPatch(d)
(***************************************************************************)
(* C27: in every operation list built without build_without_vendor, each   *)
(* operation belongs to one of nine phases, and the operations appear in   *)
(* the order of the phases: remove_all_groups; remove; move to "default";  *)
(* resize of a shrinking partition; remove_group and resize_group to a     *)
(* lower ceiling; add_group and resize_group to a higher ceiling; add;     *)
(* resize of a growing partition; move from "default" to the target group. *)
(***************************************************************************)
\* the phase of line i, from the operation and the update it is about
\* (0: the operation belongs to no phase)
Phase(i) ==
  CASE IsOp(i, "remove_all_groups") -> 1
    [] IsOp(i, "remove") -> 2
    [] IsOp(i, "move") /\ _op_list[i].group = DefaultGroup -> 3
    [] IsShrinkResize(i) -> 4
    [] IsOp(i, "remove_group") \/ IsGroupLower(i) -> 5
    [] IsOp(i, "add_group") \/ IsGroupRaise(i) -> 6
    [] IsOp(i, "add") -> 7
    [] IsGrowResize(i) -> 8
    [] IsOp(i, "move") /\ _op_list[i].group # DefaultGroup -> 9
    [] OTHER -> 0

C27_PhaseOrder ==
  (Planned /\ ~build_without_vendor) =>
    /\ \A i \in OpIdx : Phase(i) \in 1..9
    /\ \A i, j \in OpIdx : i < j => Phase(i) <= Phase(j)

C27_Witness ==
  /\ Planned
  /\ ~build_without_vendor
  /\ \E i, j, k, l \in OpIdx :
       /\ Phase(i) = 4
       /\ Phase(j) \in {5, 6}
       /\ Phase(k) = 7
       /\ Phase(l) = 8
       /\ i < j /\ j < k /\ k < l
(***************************************************************************)
(* C28: with at least one worker and under fair scheduling,                *)
(* ComputeDifferences eventually returns, for any pairs (pairs with a      *)
(* zero-size target file included) and any outcome of each diff.           *)
(***************************************************************************)
\* ComputeDifferences is over: it returned, or its sort raised TypeError
PoolOver == main \in {"returned", "TypeError"}

C28_AsStated == (worker_threads >= 1) ~> PoolOver

\* the part that holds: with one worker ComputeDifferences is always over
\* in the end
C28_OneWorkerReturns == (worker_threads = 1) ~> PoolOver

(***************************************************************************)
(* C29: however a worker thread of ComputeDifferences ends, by the end of  *)
(* its loop or by an exception raised in ComputePatch or while it reports  *)
(* the result, it does not hold the lock of the iterator any more.         *)
(***************************************************************************)
\* the worker threads that have ended
Ended == {w \in Started : wpc[w] \in {"done", "raised"}}

C29_AsStated == \A w \in Ended : lock # w

\* the part that holds: a worker that ended by the end of its loop, or by
\* an exception of ComputePatch, does not hold the lock
C29_ReleasedUnlessReportRaised ==
  \A w \in Ended : lock = w => (wd[w] # 0 /\ ReportDividesByZero(wd[w]))

(***************************************************************************)
(* C30: each pair given to ComputeDifferences is passed to ComputePatch    *)
(* exactly once: no pair is taken from the iterator twice, and when        *)
(* ComputeDifferences has returned every pair has been taken.              *)
(***************************************************************************)
\* the pairs taken from the iterator, each passed to ComputePatch by the
\* worker that took it
Taken == {dequeued[k] : k \in 1..Len(dequeued)}

C30_AtMostOnce ==
  \A j, k \in 1..Len(dequeued) : j # k => dequeued[j] # dequeued[k]

C30_AsStated ==
  /\ C30_AtMostOnce
  /\ (main = "returned" /\ worker_threads >= 1) => Taken = PairIdx
(***************************************************************************)
(* C31: the signals of ComputePatch. The signals sent to the diff process  *)
(* are terminate, or terminate and then kill; ComputePatch goes on to send *)
(* kill only from the test after the five-second join, and only if the     *)
(* reader thread was alive at that test; ComputePatch does not return      *)
(* while the reader thread is alive.                                       *)
(* As stated, no signal is sent to a process that finished within the      *)
(* timeout. As amended, no signal is sent unless the join of 300 seconds   *)
(* timed out, that is, the reader thread had not ended within the timeout. *)
(***************************************************************************)
\* terminate comes first and kill only after it, each at most once
SignalsInOrder ==
  \A d \in PairIdx : signals[d] \in {<<>>, <<"terminate">>, <<"terminate", "kill">>}

\* ComputePatch has not returned on a pair whose reader thread is alive
NoReturnWhileReaderAlive ==
  \A d \in PairIdx : returned[d] # <<>> => reader[d] = "ended"

\* a worker goes on to p.kill() only from the test after join(5), and only
\* if th is alive at that test
KillOnlyIfStillAlive ==
  \A w \in WorkerSet :
    (wpc'[w] = "kill" /\ wpc[w] # "kill") =>
      (wpc[w] = "alive2" /\ reader[wd[w]] = "alive")

\* a signal is only added by the worker that stands at p.terminate() or at
\* p.kill()
SignalsOnlyFromWorker ==
  \A d \in PairIdx :
    signals'[d] # signals[d] =>
      \E w \in WorkerSet :
        /\ wd[w] = d
        /\ \/ wpc[w] = "terminate" /\ signals'[d] = Append(signals[d], "terminate")
           \/ wpc[w] = "kill" /\ signals'[d] = Append(signals[d], "kill")

\* the process was running when the timeout expired
NoSignalToFinishedProcess ==
  \A d \in PairIdx : signals[d] # <<>> => expired[d] = "running"

\* the join of 300 seconds timed out: the reader thread was alive
NoSignalUnlessTimedOut ==
  \A d \in PairIdx : signals[d] # <<>> => expired[d] # "no"

\* the claim as stated, in every state (its two conditions on steps are the
\* same as stated and as amended)
C31_AsStated ==
  SignalsInOrder /\ NoReturnWhileReaderAlive /\ NoSignalToFinishedProcess

C31_TerminateThenKill ==
  /\ [](SignalsInOrder /\ NoReturnWhileReaderAlive /\ NoSignalUnlessTimedOut)
  /\ [][KillOnlyIfStillAlive /\ SignalsOnlyFromWorker]_vars

C31_Witness ==
  /\ Len(diffs) = 1
  /\ signals[1] = <<"terminate", "kill">>
  /\ expired[1] = "running"
  /\ proc[1] = "signalled"
  /\ returned[1] # <<>>
(***************************************************************************)
(* C32: each operation of the list is applicable at its point in the       *)
(* replay: resize, move and remove name a partition that exists at that    *)
(* point, add names a partition that does not exist at that point, and add *)
(* and move name a group that exists at that point or the group "default". *)
(***************************************************************************)
\* what the claim asks of line l in the topology it is applied to
PartitionOpApplicable(l, groups, parts) ==
  CASE l.op \in {"resize", "remove"} -> PartExists(parts, l.name)
    [] l.op = "move" -> PartExists(parts, l.name) /\ GroupExists(groups, l.group)
    [] l.op = "add" -> ~PartExists(parts, l.name) /\ GroupExists(groups, l.group)
    [] OTHER -> TRUE

\* the replay stands before an operation of the list
BeforeOp ==
  /\ Constructed
  /\ ~replay_failed
  /\ NextOp(_op_list, applied) <= Len(_op_list)

\* the operation the replay stands before is applicable as the claim asks
NextOpApplicable ==
  PartitionOpApplicable(_op_list[NextOp(_op_list, applied)], dev_groups, dev_parts)

\* C32 as stated, for the accepted inputs without build_without_vendor
C32_AsStated == (BeforeOp /\ ~build_without_vendor) => NextOpApplicable

\* C32, amended: for the lists built without build_without_vendor from
\* inputs in which each partition with a non-zero size in a build is listed
\* in a group of that build; then no operation of the list fails
C32_OpsApplicable ==
  (Constructed /\ ~build_without_vendor /\ SizedAreListed) =>
    /\ ~replay_failed
    /\ BeforeOp => NextOpApplicable

\* the replay stands before the move of a partition out of "default", after
\* the add of another partition
C32_Witness ==
  /\ BeforeOp /\ ~build_without_vendor /\ SizedAreListed
  /\ NextOpApplicable
  /\ _op_list[NextOp(_op_list, applied)].op = "move"
  /\ _op_list[NextOp(_op_list, applied)].group # DefaultGroup
  /\ \E i \in 1..applied : IsOp(i, "add")
(***************************************************************************)
(* C33: a remove_group g stands at a point of the replay where no          *)
(* partition is a member of g: every partition that the source lists in g  *)
(* has a remove, or a move to "default", earlier in the list.              *)
(***************************************************************************)
\* line j takes partition p out of its source group
LeavesGroup(j, p) ==
  /\ _op_list[j].name = p
  /\ \/ IsOp(j, "remove")
     \/ IsOp(j, "move") /\ _op_list[j].group = DefaultGroup

C33_RemoveGroupIsEmpty ==
  /\ Planned =>
       \A i \in OpIdx :
         IsOp(i, "remove_group") =>
           \A n \in 1..Len(_partition_updates) :
             _partition_updates[n].src_group = _op_list[i].group =>
               \E j \in 1..(i - 1) : LeavesGroup(j, _partition_updates[n].partition)
  /\ (BeforeOp /\ _op_list[NextOp(_op_list, applied)].op = "remove_group") =>
       Members(dev_parts, _op_list[NextOp(_op_list, applied)].group) = {}

\* the replay stands before the remove_group of a group that had a member
\* removed and a member moved
C33_Witness ==
  /\ BeforeOp
  /\ _op_list[NextOp(_op_list, applied)].op = "remove_group"
  /\ \E j, k \in 1..applied :
       /\ IsOp(j, "remove")
       /\ IsOp(k, "move")
       /\ UpdateOf(_op_list[j].name).src_group = _op_list[NextOp(_op_list, applied)].group
       /\ UpdateOf(_op_list[k].name).src_group = _op_list[NextOp(_op_list, applied)].group
(***************************************************************************)
(* C34: in an operation list built without build_without_vendor, each      *)
(* group is named by at most one of add_group, remove_group and            *)
(* resize_group, and each partition by at most one resize, at most one     *)
(* add, at most one remove, never both an add and a remove, and either by  *)
(* no move or by two: a move to "default" and later a move to its target   *)
(* group.                                                                  *)
(***************************************************************************)
\* the lines with one of the operations that name the partition p, the
\* group g
PartOps(ops, p) == {i \in OpIdx : _op_list[i].op \in ops /\ _op_list[i].name = p}

GroupOpsOf(g) == {i \in OpIdx : _op_list[i].op \in GroupOps /\ _op_list[i].group = g}

\* no move of p, or the pair of moves through "default"
MovesArePaired(p) ==
  \/ PartOps({"move"}, p) = {}
  \/ \E i, j \in OpIdx :
       /\ i < j
       /\ PartOps({"move"}, p) = {i, j}
       /\ _op_list[i].group = DefaultGroup
       /\ _op_list[j].group = UpdateOf(p).tgt_group
       /\ _op_list[j].group # DefaultGroup

C34_EachNamedOnce ==
  (Planned /\ ~build_without_vendor) =>
    /\ \A g \in GroupSet : Cardinality(GroupOpsOf(g)) <= 1
    /\ \A p \in PartSet :
         /\ Cardinality(PartOps({"resize"}, p)) <= 1
         /\ Cardinality(PartOps({"add"}, p)) <= 1
         /\ Cardinality(PartOps({"remove"}, p)) <= 1
         /\ Cardinality(PartOps({"add", "remove"}, p)) <= 1
         /\ MovesArePaired(p)

\* a list that moves one partition, resizes both and changes both groups
C34_Witness ==
  /\ Planned /\ ~build_without_vendor
  /\ \E p \in PartSet : Cardinality(PartOps({"move"}, p)) = 2
  /\ \A p \in PartSet : Cardinality(PartOps({"resize"}, p)) = 1
  /\ \A g \in GroupSet : Cardinality(GroupOpsOf(g)) = 1
(***************************************************************************)
(* C35: the script of DynamicPartitionsDifference.WriteScript holds        *)
(* exactly one block update for each partition with a non-zero target size *)
(* and none for a partition with target size zero; with                    *)
(* write_verify_script each of the former has exactly one post-install     *)
(* verify, after the update_dynamic_partitions call, and without it none.  *)
(***************************************************************************)
\* the places where the post-install verify of partition p starts
PostVerifies(p) ==
  {i \in ScriptIdx : /\ script[i].kind = "if"
                     /\ script[i].arg = CareMapHash
                     /\ script[i].partition = p}

C35_OneUpdateOneVerify ==
  Written =>
    \A k \in 1..Len(block_diffs) :
      LET p == block_diffs[k].partition IN
        IF _GetSparseImageSize(block_diffs[k].tgt) # 0
          THEN /\ Cardinality(BlockUpdates(p)) = 1
               /\ Cardinality(PostVerifies(p)) = IF write_verify_script THEN 1 ELSE 0
               /\ \A i \in PostVerifies(p), m \in MetadataCalls : i > m
          ELSE /\ BlockUpdates(p) = {}
               /\ PostVerifies(p) = {}

\* a script with verification for a partition that shrinks, patched before
\* the metadata call, and one that grows
C35_Witness ==
  /\ Written
  /\ write_verify_script
  /\ \E k, l \in 1..Len(block_diffs) :
       /\ ShrinkingDiff(block_diffs[k])
       /\ OtherSizedDiff(block_diffs[l])
       /\ Cardinality(PostVerifies(block_diffs[k].partition)) = 1
       /\ Cardinality(PostVerifies(block_diffs[l].partition)) = 1
       /\ \A i \in BlockUpdates(block_diffs[k].partition), m \in MetadataCalls : i < m

(***************************************************************************)
(* C36: a failing constructor check raises before planning                 *)
(***************************************************************************)
\* two BlockDifference objects name the same partition
DuplicateBlockDiff ==
  \E i, j \in 1..Len(block_diffs) :
    i # j /\ block_diffs[i].partition = block_diffs[j].partition

\* the partitions with an image in a build are not the ones the build declares
DynamicSetMismatch ==
  LET sd == SourceDict(source_info_dict)
      pu == PartitionUpdates(info_dict, sd, block_diffs)
  IN \/ block_diffs_with_target(pu) # info_dict.dynamic_partition_list
     \/ block_diffs_with_source(pu) # sd.dynamic_partition_list

CheckFails ==
  \/ DuplicateBlockDiff
  \/ ListedWithoutBlockDiff
  \/ DynamicSetMismatch

\* C36: when two BlockDifference objects name the same partition, a listed
\* partition has no BlockDifference, or the partitions with an image differ
\* from the declared dynamic partitions, the construction never completes:
\* _Compute has not run, the object holds no operation list, no update
\* records, and nothing is replayed
C36_FailedCheckNoPlan ==
  CheckFails =>
    /\ pc \in {"new", "AssertionError"}
    /\ _op_list = <<>>
    /\ _partition_updates = <<>>
    /\ _group_updates = <<>>
    /\ applied = 0

\* the constructor has raised on the last of its checks: no duplicate, every
\* listed partition has a BlockDifference, the declared set differs
C36_Witness ==
  /\ pc = "AssertionError"
  /\ ~DuplicateBlockDiff
  /\ ~ListedWithoutBlockDiff
  /\ DynamicSetMismatch

\* the constructor has raised on the first check, and on the second
C36_RaisedOnDuplicate == pc = "AssertionError" /\ DuplicateBlockDiff
C36_RaisedOnUnlisted ==
  /\ pc = "AssertionError"
  /\ ~DuplicateBlockDiff
  /\ ListedWithoutBlockDiff

(***************************************************************************)
(* C37: the verification fragments are well nested                         *)
(***************************************************************************)
\* the statements s[i], s[i+1], ... close the blocks of open, a sequence
\* holding for every enclosing "if", innermost last, the branch the scan is
\* in, and every "if" among them gets its "else" and then its "endif"
RECURSIVE NestedFrom(_, _, _)
NestedFrom(s, i, open) ==
  IF i > Len(s)
    THEN open = <<>>
    ELSE CASE s[i].kind = "if" ->
                NestedFrom(s, i + 1, Append(open, "then"))
           [] s[i].kind = "else" ->
                /\ open # <<>>
                /\ open[Len(open)] = "then"
                /\ NestedFrom(s, i + 1, [open EXCEPT ![Len(open)] = "else"])
           [] s[i].kind = "endif" ->
                /\ open # <<>>
                /\ open[Len(open)] = "else"
                /\ NestedFrom(s, i + 1, SubSeq(open, 1, Len(open) - 1))
           [] OTHER -> NestedFrom(s, i + 1, open)

WellNested(s) == NestedFrom(s, 1, <<>>)

\* C37: whatever the BlockDifference (source or not, version 3 or later,
\* ranges empty or not, first-block check or not, extended region or not)
\* and whatever touched_blocks_only, the script WriteVerifyScript or
\* WritePostInstallVerifyScript has written is well nested: every "if" is
\* followed by one "else" of its own and then one "endif" of its own, and no
\* "else" or "endif" stands outside an "if".
C37_WellNested ==
  written \in {"WriteVerifyScript", "WritePostInstallVerifyScript"} =>
    /\ WellNested(script)
    /\ CountKind(script, "if", 1, Len(script)) = CountKind(script, "else", 1, Len(script))
    /\ CountKind(script, "if", 1, Len(script)) = CountKind(script, "endif", 1, Len(script))

\* WriteVerifyScript has written the fragment with block recovery, the
\* first-block check included, for the touched blocks only
C37_Witness ==
  /\ written = "WriteVerifyScript"
  /\ bdiff.has_src /\ bdiff.version >= 4 /\ bdiff.check_first_block
  /\ touched_blocks_only
  /\ \E i \in ScriptIdx : script[i].kind = "if"
  /\ \E i \in ScriptIdx : script[i].kind = "ifelse_recover"

\* an "if" inside an "if": the check of the extended region after the install
C37_NestedReached ==
  /\ written = "WritePostInstallVerifyScript"
  /\ CountKind(script, "if", 1, Len(script)) = 2

\* a version 3 fragment, and a fragment with no statement at all
C37_Version3Reached ==
  /\ written = "WriteVerifyScript"
  /\ bdiff.version = 3
  /\ \E i \in ScriptIdx : script[i].kind = "if"

C37_EmptyReached ==
  written = "WriteVerifyScript" /\ bdiff.has_src /\ script = <<>>

(***************************************************************************)
(* C38: the files a script names are entries of the archive                *)
(***************************************************************************)
\* the archive entries the statements of s name
Referenced(s) == UNION {s[i].files : i \in 1..Len(s)}

\* the statements whose text holds a block_image_update or a
\* block_image_verify call
ImageCalls(s) ==
  {i \in 1..Len(s) :
     \/ s[i].kind \in {"block_image_update_or_abort", "ifelse_recover"}
     \/ s[i].kind = "if" /\ s[i].arg = "range_sha1 || block_image_verify"}

\* <partition>.transfer.list, <partition>.patch.dat, and the new data under
\* <partition>.new.dat.br for a full install, <partition>.new.dat else
ArtifactsOf(p, incremental) ==
  {ZipEntry(p, "transfer.list"), ZipEntry(p, "patch.dat"),
   ZipEntry(p, IF incremental THEN "new.dat" ELSE "new.dat.br")}

\* C38: every file named by a block_image_update or block_image_verify call
\* of a written script is an entry _WriteUpdate writes for the partition of
\* the BlockDifference: the transfer list, the patch data, and the new data
\* under the name that goes with a full or an incremental install. The
\* entries WriteScript has put into the archive are exactly these.
C38_NamedFilesAreWritten ==
  /\ written # "" =>
       /\ \A i \in ImageCalls(script) : script[i].files # {}
       /\ Referenced(script) \subseteq _WriteUpdateEntries(bdiff.partition, bdiff.has_src)
       /\ Referenced(script) \subseteq ArtifactsOf(bdiff.partition, bdiff.has_src)
  /\ written = "WriteScript" =>
       /\ output_zip = ArtifactsOf(bdiff.partition, bdiff.has_src)
       /\ Referenced(script) = output_zip

\* an incremental install is written: the update names <partition>.new.dat
C38_Witness ==
  /\ written = "WriteScript"
  /\ bdiff.has_src
  /\ \E i \in ScriptIdx :
       /\ script[i].kind = "block_image_update_or_abort"
       /\ ZipEntry(bdiff.partition, "new.dat") \in script[i].files

\* a full install is written: the update names <partition>.new.dat.br
C38_FullReached ==
  /\ written = "WriteScript"
  /\ ~bdiff.has_src
  /\ ZipEntry(bdiff.partition, "new.dat.br") \in Referenced(script)

\* the verification before an incremental install names the files twice, in
\* the condition and in the recovery
C38_VerifyReached ==
  /\ written = "WriteVerifyScript"
  /\ \E i, j \in ImageCalls(script) :
       /\ script[i].kind = "if"
       /\ script[j].kind = "ifelse_recover"
       /\ script[i].files = script[j].files
       /\ ZipEntry(bdiff.partition, "new.dat") \in script[i].files
====
